---------------------------- MODULE Spec2Model ----------------------------
(***************************************************************************)
(* A model of the twee localisation validator (src/twee_validator.py).     *)
(*                                                                         *)
(* A line of text is a sequence of characters; a character is a one-       *)
(* element string.  Hangul syllables are written with their romanised      *)
(* names ("KO_mae" is U+B9E4), the Unicode replacement character is        *)
(* "U+FFFD".  Every regular expression of the REGEX table is an operator   *)
(* that computes what re.match / re.search / re.findall / re.sub compute   *)
(* for that pattern.                                                       *)
(***************************************************************************)
EXTENDS Naturals, Integers, Sequences, FiniteSets, TLC

(***************************************************************************)
(* Characters and character classes                                        *)
(***************************************************************************)
UpperCase ==
    << "A","B","C","D","E","F","G","H","I","J","K","L","M",
       "N","O","P","Q","R","S","T","U","V","W","X","Y","Z" >>

LowerCase ==
    << "a","b","c","d","e","f","g","h","i","j","k","l","m",
       "n","o","p","q","r","s","t","u","v","w","x","y","z" >>

Digits == {"0","1","2","3","4","5","6","7","8","9"}

\* The syllables of [가-힣] (U+AC00..U+D7A3) that the model's texts use,
\* each with its code point.
HangulTable ==
    << <<"KO_ga", 44032>>, <<"KO_geo", 44144>>, <<"KO_ge", 44172>>,
       <<"KO_gwa", 44284>>, <<"KO_kka", 44620>>, <<"KO_kke", 44760>>,
       <<"KO_neun", 45716>>, <<"KO_dae", 45824>>, <<"KO_do", 46020>>,
       <<"KO_ra", 46972>>, <<"KO_ro", 47196>>, <<"KO_reul", 47484>>,
       <<"KO_man", 47564>>, <<"KO_mae", 47588>>, <<"KO_bu", 48512>>,
       <<"KO_ppun", 49104>>, <<"KO_sae", 49352>>, <<"KO_seo", 49436>>,
       <<"KO_si", 49884>>, <<"KO_a", 50500>>, <<"KO_ya", 50556>>,
       <<"KO_e", 50640>>, <<"KO_yeo", 50668>>, <<"KO_wa", 50752>>,
       <<"KO_eu", 51004>>, <<"KO_eun", 51008>>, <<"KO_eul", 51012>>,
       <<"KO_ui", 51032>>, <<"KO_i", 51060>>, <<"KO_ji", 51648>>,
       <<"KO_keu", 53356>>, <<"KO_teo", 53552>>, <<"KO_te", 53580>>,
       <<"KO_han", 54620>>, <<"KO_ho", 54840>> >>

Hangul == {HangulTable[k][1] : k \in 1..Len(HangulTable)}

Whitespace == {" ", "\t"}

REPLACEMENT_CHAR == "U+FFFD"

\* The printable ASCII characters, U+0020 first.
AsciiChars ==
    << " ", "!", "\"", "#", "$", "%", "&", "'", "(", ")", "*", "+",
       ",", "-", ".", "/", "0", "1", "2", "3", "4", "5", "6", "7",
       "8", "9", ":", ";", "<", "=", ">", "?", "@", "A", "B", "C",
       "D", "E", "F", "G", "H", "I", "J", "K", "L", "M", "N", "O",
       "P", "Q", "R", "S", "T", "U", "V", "W", "X", "Y", "Z", "[",
       "\\", "]", "^", "_", "BACKTICK", "a", "b", "c", "d", "e", "f", "g",
       "h", "i", "j", "k", "l", "m", "n", "o", "p", "q", "r", "s",
       "t", "u", "v", "w", "x", "y", "z", "{", "|", "}", "~" >>

\* ord(c)
CodePoint(c) ==
    IF c = "\t" THEN 9
    ELSE IF \E k \in 1..Len(AsciiChars) : AsciiChars[k] = c
    THEN 31 + (CHOOSE k \in 1..Len(AsciiChars) : AsciiChars[k] = c)
    ELSE IF c = REPLACEMENT_CHAR THEN 65533
    ELSE HangulTable[CHOOSE k \in 1..Len(HangulTable) : HangulTable[k][1] = c][2]

IsUpper(c) == \E k \in 1..26 : UpperCase[k] = c
IsLower(c) == \E k \in 1..26 : LowerCase[k] = c
IsLetter(c) == IsUpper(c) \/ IsLower(c)
IsSpace(c) == c \in Whitespace
IsHangul(c) == c \in Hangul
\* [a-zA-Z0-9_]
IsIdentChar(c) == IsLetter(c) \/ c \in Digits \/ c = "_"
\* [a-zA-Z0-9_.]
IsVarChar(c) == IsIdentChar(c) \/ c = "."
\* \w of a str pattern: Unicode letters, digits and the underscore.
IsWordChar(c) == IsIdentChar(c) \/ IsHangul(c)

\* str.lower() and str.upper() of one character.
LowerChar(c) ==
    IF IsUpper(c) THEN LowerCase[CHOOSE k \in 1..26 : UpperCase[k] = c] ELSE c

UpperChar(c) ==
    IF IsLower(c) THEN UpperCase[CHOOSE k \in 1..26 : LowerCase[k] = c] ELSE c

\* str.lower()
Lower(s) == [k \in 1..Len(s) |-> LowerChar(s[k])]

\* str.capitalize(): the first character upper-cased, the rest lower-cased.
Capitalize(s) ==
    [k \in 1..Len(s) |-> IF k = 1 THEN UpperChar(s[k]) ELSE LowerChar(s[k])]

(***************************************************************************)
(* Sequence helpers                                                        *)
(***************************************************************************)
Min(S) == CHOOSE x \in S : \A y \in S : x <= y
Max(S) == CHOOSE x \in S : \A y \in S : y <= x

\* min(S), or d for an empty S.
LeastOr(S, d) == IF S = {} THEN d ELSE Min(S)

Range(s) == {s[k] : k \in 1..Len(s)}

RECURSIVE Flatten(_)
Flatten(ss) == IF ss = <<>> THEN <<>> ELSE Head(ss) \o Flatten(Tail(ss))

\* s[a:b] of Python with 1-based inclusive bounds: the characters of s at
\* the positions a..b that exist.
Slice(s, a, b) ==
    LET lo == IF a < 1 THEN 1 ELSE a
        hi == IF b > Len(s) THEN Len(s) ELSE b
    IN  IF lo > hi THEN <<>> ELSE SubSeq(s, lo, hi)

\* The least q >= p at which pat occurs in s, 0 when there is none.
FindFrom(s, pat, p) ==
    LeastOr({q \in p..(Len(s) + 1 - Len(pat)) :
                Slice(s, q, q + Len(pat) - 1) = pat}, 0)

\* `pat in s`
Contains(s, pat) == FindFrom(s, pat, 1) # 0

StartsWith(s, pat) == Len(s) >= Len(pat) /\ Slice(s, 1, Len(pat)) = pat

\* s from the first to the last of the positions K, nothing for no position.
Between(s, K) == IF K = {} THEN <<>> ELSE Slice(s, Min(K), Max(K))

\* str.strip()
Strip(s) == Between(s, {k \in 1..Len(s) : ~IsSpace(s[k])})

\* a < b for two str values: by code point, a proper prefix first.
RECURSIVE StrLess(_, _)
StrLess(a, b) ==
    IF b = <<>> THEN FALSE
    ELSE IF a = <<>> THEN TRUE
    ELSE IF Head(a) # Head(b) THEN CodePoint(Head(a)) < CodePoint(Head(b))
    ELSE StrLess(Tail(a), Tail(b))

\* min(S) for a set of str values.
Least(S) == CHOOSE x \in S : \A y \in S \ {x} : StrLess(x, y)

\* sorted(list(S)) for a set of str values.
RECURSIVE Sorted(_)
Sorted(S) ==
    IF S = {} THEN <<>> ELSE << Least(S) >> \o Sorted(S \ {Least(S)})

\* The sequences that list every element of S once.
Orderings(S) ==
    {f \in [1..Cardinality(S) -> S] : \A x \in S : \E k \in DOMAIN f : f[k] = x}

\* Membership of c in a named character class.
InClass(c, cls) ==
    CASE cls = "ident"  -> IsIdentChar(c)
      [] cls = "var"    -> IsVarChar(c)
      [] cls = "word"   -> IsWordChar(c) \/ c = "'"
      [] cls = "space"  -> IsSpace(c)
      [] cls = "hangul" -> IsHangul(c)
      [] cls = "digit"  -> c \in Digits
      [] cls = "alpha_space" -> IsLetter(c) \/ IsSpace(c)
      [] cls = "hash"   -> c = "#"
      [] cls = "quote"  -> c \in {"\"", "'"}

\* The last index of the maximal run of class characters that starts at
\* p (p - 1 when s[p] is not in the class): a greedy [class]* at p.
RunEnd(s, p, cls) ==
    LeastOr({q \in p..Len(s) : ~InClass(s[q], cls)}, Len(s) + 1) - 1

\* The least q >= p with s[q] in the class, 0 when there is none.
FindClass(s, p, cls) == LeastOr({q \in p..Len(s) : InClass(s[q], cls)}, 0)

(***************************************************************************)
(* REGEX: the compiled patterns, each as the operation the code applies    *)
(***************************************************************************)
LtLt == << "<", "<" >>
GtGt == << ">", ">" >>
LbLb == << "[", "[" >>
RbRb == << "]", "]" >>

\* REGEX["passage_header"].match(line):  ^(::\s.*)$
\* group(1) is the whole line.
MatchPassageHeader(line) ==
    /\ Len(line) >= 3
    /\ line[1] = ":" /\ line[2] = ":"
    /\ IsSpace(line[3])

\* REGEX["markdown_header"].match(line):  ^(#+)\s.*$
\* #+ is greedy and may give back all but one '#', but the next character
\* must be whitespace, which no '#' is: e is the last '#' of the run.
MatchMarkdownHeader(line) ==
    /\ Len(line) >= 2
    /\ line[1] = "#"
    /\ \E e \in {RunEnd(line, 1, "hash")} :
          e < Len(line) /\ IsSpace(line[e + 1])

\* REGEX["comment"].match(stripped):  ^\s*(/\*.*?\*/|<!--.*?-->)
\* b is the position after the leading whitespace.
MatchComment(stripped) ==
    \E b \in {RunEnd(stripped, 1, "space") + 1} :
       \/ /\ Slice(stripped, b, b + 1) = << "/", "*" >>
          /\ FindFrom(stripped, << "*", "/" >>, b + 2) # 0
       \/ /\ Slice(stripped, b, b + 3) = << "<", "!", "-", "-" >>
          /\ FindFrom(stripped, << "-", "-", ">" >>, b + 4) # 0

\* Where the first `close` after the `open` at st starts, 0 for none.
CloseAfter(s, open, close, st) == FindFrom(s, close, st + Len(open))

\* The spans <<first, last>> of the non-overlapping leftmost matches of
\* open.*?close in s, the first of them opening at st (0: no `open` is
\* left): "<<.*?>>" and "\[\[.*?\]\]".
RECURSIVE DelimSpans(_, _, _, _)
DelimSpans(s, open, close, st) ==
    IF st = 0 \/ CloseAfter(s, open, close, st) = 0
    THEN <<>>
    ELSE << <<st, CloseAfter(s, open, close, st) + Len(close) - 1>> >>
             \o DelimSpans(s, open, close,
                    FindFrom(s, open, CloseAfter(s, open, close, st) + Len(close)))

\* The text of each span without its first and last `inset` characters.
SpanTexts(s, spans, inset) ==
    [k \in 1..Len(spans) |-> Slice(s, spans[k][1] + inset, spans[k][2] - inset)]

\* REGEX["macro"].findall(line):  <<.*?>>
FindAllMacro(line) ==
    SpanTexts(line, DelimSpans(line, LtLt, GtGt, FindFrom(line, LtLt, 1)), 0)

\* The identifier [a-zA-Z0-9_]+ at position b of the macro, if any.
MacroHead(macro, b) == Slice(macro, b, RunEnd(macro, b, "ident"))

\* REGEX["macro_name"].match(macro):  <<\s*([a-zA-Z0-9_]+)
\* The head identifier (group 1), <<>> when the pattern does not match.
MacroName(macro) ==
    IF ~StartsWith(macro, LtLt) THEN <<>>
    ELSE MacroHead(macro, RunEnd(macro, 3, "space") + 1)

\* The least q >= p where \$[a-zA-Z0-9_.]+ matches, 0 for none.
NextVariable(s, p) ==
    LeastOr({q \in p..(Len(s) - 1) : s[q] = "$" /\ IsVarChar(s[q + 1])}, 0)

\* REGEX["variable"].findall(text), the first match starting at q.
RECURSIVE FindAllVariableFrom(_, _)
FindAllVariableFrom(s, q) ==
    IF q = 0 THEN <<>>
    ELSE << Slice(s, q, RunEnd(s, q + 1, "var")) >>
         \o FindAllVariableFrom(s, NextVariable(s, RunEnd(s, q + 1, "var") + 1))

FindAllVariable(s) == FindAllVariableFrom(s, NextVariable(s, 1))

\* The quote that closes the literal opened by the quote at q, 0 for none:
\* an opening quote of either kind closes at the next quote of either kind.
ClosingQuote(s, q) == FindClass(s, q + 1, "quote")

\* REGEX["string_literal"].findall(content):  ["'](.*?)["']
\* the first match opening at q.
RECURSIVE FindAllStringLiteralFrom(_, _)
FindAllStringLiteralFrom(s, q) ==
    IF q = 0 \/ ClosingQuote(s, q) = 0 THEN <<>>
    ELSE << Slice(s, q + 1, ClosingQuote(s, q) - 1) >>
         \o FindAllStringLiteralFrom(s, FindClass(s, ClosingQuote(s, q) + 1, "quote"))

FindAllStringLiteral(s) == FindAllStringLiteralFrom(s, FindClass(s, 1, "quote"))

\* REGEX["korean"].search(s):  [가-힣]
SearchKorean(s) == \E k \in 1..Len(s) : IsHangul(s[k])

\* REGEX["corrupted_char"].search(s)
SearchCorruptedChar(s) == \E k \in 1..Len(s) : s[k] = REPLACEMENT_CHAR

\* The punctuation of REGEX["english_only"] ("BACKTICK" is U+0060):
\*   ^[a-zA-Z\s.,!?'\"():<>_`~@#$%^&*=\[\]{}|\\/+-]+$
EnglishPunct ==
    { ".", ",", "!", "?", "'", "\"", "(", ")", ":", "<", ">", "_", "BACKTICK", "~",
      "@", "#", "$", "%", "^", "&", "*", "=", "[", "]", "{", "}", "|", "\\",
      "/", "+", "-" }

\* REGEX["english_only"].match(s)
MatchEnglishOnly(s) ==
    /\ s # <<>>
    /\ \A k \in 1..Len(s) :
          IsLetter(s[k]) \/ IsSpace(s[k]) \/ s[k] \in EnglishPunct

\* REGEX["word_tokenizer"].findall(s):  [\w']+   the first match starting
\* at q.
RECURSIVE FindAllWordsFrom(_, _)
FindAllWordsFrom(s, q) ==
    IF q = 0 THEN <<>>
    ELSE << Slice(s, q, RunEnd(s, q, "word")) >>
         \o FindAllWordsFrom(s, FindClass(s, RunEnd(s, q, "word") + 1, "word"))

FindAllWords(s) == FindAllWordsFrom(s, FindClass(s, 1, "word"))

\* str.isdigit()
IsDigit(s) == s # <<>> /\ \A k \in 1..Len(s) : s[k] \in Digits

\* REGEX["forbidden_pattern"].search(s):  [가-힣]+\s*\([A-Za-z\s]+\)
\* o is where '(' must be, e the end of the letters and spaces after it.
SearchForbiddenPattern(s) ==
    \E k \in 1..Len(s) :
       /\ IsHangul(s[k])
       /\ \E o \in {RunEnd(s, k + 1, "space") + 1} :
             /\ o <= Len(s) /\ s[o] = "("
             /\ \E e \in {RunEnd(s, o + 1, "alpha_space")} :
                   /\ e >= o + 1
                   /\ e < Len(s) /\ s[e + 1] = ")"

\* Of the link that opens at st: where its '|' is, and where its "]]"
\* starts (0 for none).
LinkBar(s, st) == FindFrom(s, << "|" >>, st + 2)
LinkEnd(s, st) ==
    IF LinkBar(s, st) = 0 THEN 0 ELSE FindFrom(s, RbRb, LinkBar(s, st) + 1)

\* REGEX["link_with_dest"].findall(line):  \[\[(.*?)\|(.*?)\]\]
\* the first match opening at st.  Each match is <<display, destination>>.
\* '.' also matches brackets: the display group runs from the first "[["
\* to the first '|' after it.
RECURSIVE FindAllLinkWithDestFrom(_, _)
FindAllLinkWithDestFrom(s, st) ==
    IF st = 0 \/ LinkEnd(s, st) = 0 THEN <<>>
    ELSE << << Slice(s, st + 2, LinkBar(s, st) - 1),
               Slice(s, LinkBar(s, st) + 1, LinkEnd(s, st) - 1) >> >>
         \o FindAllLinkWithDestFrom(s, FindFrom(s, LbLb, LinkEnd(s, st) + 2))

FindAllLinkWithDest(s) == FindAllLinkWithDestFrom(s, FindFrom(s, LbLb, 1))

\* REGEX["link_simple"].findall(line):  \[\[(.*?)\]\]
FindAllLinkSimple(line) ==
    SpanTexts(line, DelimSpans(line, LbLb, RbRb, FindFrom(line, LbLb, 1)), 2)

\* Where the `close` of the `open` that starts at p begins, 0 when `open`
\* is not at p or is never closed.
ClosedAt(s, p, open, close) ==
    IF Slice(s, p, p + Len(open) - 1) = open
    THEN FindFrom(s, close, p + Len(open)) ELSE 0

\* REGEX["code_block"] tried at position p: the last index of the match of
\*   (<<.*?>>|\[\[.*?\]\]|\$[a-zA-Z0-9_.]+|<.*?>)
\* that starts at p, the alternatives in this order; 0 when none matches.
CodeSpanAt(s, p) ==
    IF ClosedAt(s, p, LtLt, GtGt) # 0 THEN ClosedAt(s, p, LtLt, GtGt) + 1
    ELSE IF ClosedAt(s, p, LbLb, RbRb) # 0 THEN ClosedAt(s, p, LbLb, RbRb) + 1
    ELSE IF s[p] = "$" /\ RunEnd(s, p + 1, "var") > p THEN RunEnd(s, p + 1, "var")
    ELSE ClosedAt(s, p, << "<" >>, << ">" >>)

\* REGEX["code_block"].sub("", line) from position p.
RECURSIVE RemoveCodeFrom(_, _)
RemoveCodeFrom(s, p) ==
    IF p > Len(s) THEN <<>>
    ELSE IF CodeSpanAt(s, p) # 0 THEN RemoveCodeFrom(s, CodeSpanAt(s, p) + 1)
    ELSE << s[p] >> \o RemoveCodeFrom(s, p + 1)

\* REGEX["code_block"].search(line)
SearchCodeBlock(line) == \E p \in 1..Len(line) : CodeSpanAt(line, p) # 0

(***************************************************************************)
(* difflib.SequenceMatcher(None, a, b, autojunk=False).get_opcodes()       *)
(* Indices are those of Python: 0-based, a[lo:hi] excludes hi.  With no    *)
(* junk test and autojunk off, every element of b is indexed.              *)
(***************************************************************************)
\* The length of the longest common run that starts at a[i], b[j] and
\* stays inside a[:ahi], b[:bhi].
CommonRun(a, b, i, j, ahi, bhi) ==
    LET room == IF ahi - i < bhi - j THEN ahi - i ELSE bhi - j
    IN  Max({k \in 0..room : \A t \in 1..k : a[i + t] = b[j + t]})

\* The longest common run of a[alo:ahi] and b[blo:bhi], 0 for none.
BestRun(a, b, alo, ahi, blo, bhi) ==
    Max({0} \cup {CommonRun(a, b, q[1], q[2], ahi, bhi) :
                    q \in (alo..(ahi - 1)) \X (blo..(bhi - 1))})

\* Where a run of length `best` starts: the least i, and for it the least j.
BestStart(a, b, alo, ahi, blo, bhi, best) ==
    CHOOSE q \in (alo..(ahi - 1)) \X (blo..(bhi - 1)) :
       /\ CommonRun(a, b, q[1], q[2], ahi, bhi) = best
       /\ \A r \in (alo..(ahi - 1)) \X (blo..(bhi - 1)) :
             CommonRun(a, b, r[1], r[2], ahi, bhi) = best
                => (q[1] < r[1] \/ (q[1] = r[1] /\ q[2] <= r[2]))

\* find_longest_match(alo, ahi, blo, bhi): <<i, j, k>> with
\* a[i:i+k] == b[j:j+k], k maximal, of those i minimal, of those j minimal;
\* <<alo, blo, 0>> when no element matches.
FindLongestMatch(a, b, alo, ahi, blo, bhi) ==
    IF BestRun(a, b, alo, ahi, blo, bhi) = 0 THEN <<alo, blo, 0>>
    ELSE BestStart(a, b, alo, ahi, blo, bhi, BestRun(a, b, alo, ahi, blo, bhi))
         \o << BestRun(a, b, alo, ahi, blo, bhi) >>

\* The blocks get_matching_blocks finds in a[alo:ahi], b[blo:bhi], sorted:
\* the longest match m, then the same to its left and to its right.
RECURSIVE MatchingBlocksIn(_, _, _, _, _, _)
MatchingBlocksAround(a, b, alo, ahi, blo, bhi, m) ==
    IF m[3] = 0 THEN <<>>
    ELSE (IF alo < m[1] /\ blo < m[2]
          THEN MatchingBlocksIn(a, b, alo, m[1], blo, m[2]) ELSE <<>>)
         \o << m >>
         \o (IF m[1] + m[3] < ahi /\ m[2] + m[3] < bhi
             THEN MatchingBlocksIn(a, b, m[1] + m[3], ahi, m[2] + m[3], bhi)
             ELSE <<>>)

MatchingBlocksIn(a, b, alo, ahi, blo, bhi) ==
    MatchingBlocksAround(a, b, alo, ahi, blo, bhi,
                         FindLongestMatch(a, b, alo, ahi, blo, bhi))

\* Adjacent blocks collapsed into one, as get_matching_blocks does.
RECURSIVE CollapseBlocks(_)
CollapseBlocks(blocks) ==
    IF Len(blocks) <= 1 THEN blocks
    ELSE LET x == blocks[1]
             y == blocks[2]
         IN  IF x[1] + x[3] = y[1] /\ x[2] + x[3] = y[2]
             THEN CollapseBlocks(<< <<x[1], x[2], x[3] + y[3]>> >>
                                    \o Tail(Tail(blocks)))
             ELSE << x >> \o CollapseBlocks(Tail(blocks))

\* get_matching_blocks(): the collapsed blocks and the sentinel.
GetMatchingBlocks(a, b) ==
    CollapseBlocks(MatchingBlocksIn(a, b, 0, Len(a), 0, Len(b)))
        \o << <<Len(a), Len(b), 0>> >>

\* The opcodes <<tag, i1, i2, j1, j2>> for the blocks from the n-th on,
\* with a[:i] and b[:j] already covered.
RECURSIVE OpcodesFrom(_, _, _, _)
OpcodesFrom(blocks, n, i, j) ==
    IF n > Len(blocks) THEN <<>>
    ELSE LET ai   == blocks[n][1]
             bj   == blocks[n][2]
             size == blocks[n][3]
             tag  == IF i < ai /\ j < bj THEN "replace"
                     ELSE IF i < ai THEN "delete"
                     ELSE IF j < bj THEN "insert"
                     ELSE ""
         IN  (IF tag # "" THEN << <<tag, i, ai, j, bj>> >> ELSE <<>>)
             \o (IF size > 0
                 THEN << <<"equal", ai, ai + size, bj, bj + size>> >>
                 ELSE <<>>)
             \o OpcodesFrom(blocks, n + 1, ai + size, bj + size)

GetOpcodes(a, b) == OpcodesFrom(GetMatchingBlocks(a, b), 1, 0, 0)

(***************************************************************************)
(* TweeL10nValidator: constants                                            *)
(***************************************************************************)
UNTRANSLATED_LINK_WORD_THRESHOLD == 4

\* ENGLISH_RATIO_THRESHOLD = 0.8, in percent.
ENGLISH_RATIO_THRESHOLD == 80

CONTEXT_LINES == 2

ALLOWED_POSTPOSITIONS ==
    { <<"KO_eun">>, <<"KO_neun">>, <<"KO_i">>, <<"KO_ga">>,
      <<"KO_eul">>, <<"KO_reul">>, <<"KO_gwa">>, <<"KO_wa">>,
      <<"KO_ui">>, <<"KO_kke">>, <<"KO_e", "KO_ge">>, <<"KO_han", "KO_te">>,
      <<"KO_eu", "KO_ro">>, <<"KO_ro">>, <<"KO_e", "KO_seo">>, <<"KO_bu", "KO_teo">>,
      <<"KO_kka", "KO_ji">>, <<"KO_man">>, <<"KO_do">>, <<"KO_ppun">>,
      <<"KO_i", "KO_ra">>, <<"KO_ra">>, <<"KO_i", "KO_yeo">>, <<"KO_yeo">>,
      <<"KO_i", "KO_si", "KO_yeo">>, <<"KO_si", "KO_yeo">>, <<"KO_a">>, <<"KO_ya">> }

TEXT_MACROS_WHITELIST ==
    { <<"p", "r", "i", "n", "t">>,
      <<"s", "a", "y">>,
      <<"e", "i", "t", "h", "e", "r">>,
      <<"d", "i", "s", "p", "l", "a", "y">>,
      <<"l", "i", "n", "k">>,
      <<"b", "u", "t", "t", "o", "n">>,
      <<"c", "h", "e", "c", "k", "b", "o", "x">>,
      <<"r", "a", "d", "i", "o", "b", "u", "t", "t", "o", "n">>,
      <<"t", "e", "x", "t", "b", "o", "x">>,
      <<"t", "e", "x", "t", "a", "r", "e", "a">>,
      <<"t", "i", "m", "e", "d">>,
      <<"r", "e", "p", "e", "a", "t">>,
      <<"H", "e", "P", "o", "s", "t">>,
      <<"b", "H", "e", "P", "o", "s", "t">>,
      <<"n", "n", "p", "c", "_", "H", "e", "P", "o", "s", "t">>,
      <<"p", "u", "t", "p", "o", "s", "t">>,
      <<"s", "e", "x", "t", "o", "y", "P", "o", "s", "t">> }

(***************************************************************************)
(* Issues.  _add_issue appends one record of keywords; a keyword the call     *)
(* does not pass is the empty text here.  `type` is the issue's kind:      *)
(*   STRUCTURE_ERROR            "구조적 오류"                              *)
(*   STRUCTURAL_MISMATCH        "구조적 불일치 (줄 삭제/추가)"             *)
(*   PASSAGE_HEADER_MISMATCH    "패시지 헤더 불일치"                       *)
(*   LINK_DESTINATION_MISMATCH  "링크 목적지 불일치"                       *)
(*   GLOBAL_VARIABLE_MISMATCH   "전역 변수 불일치"                         *)
(*   MACRO_CORRUPTION           "매크로 코드 손상"                         *)
(*   EMPTY_INTERACTION          "빈 상호작용"                              *)
(*   UNTRANSLATED_LINK          "미번역 의심 (링크)"                       *)
(*   UNTRANSLATED_CONTENT       "미번역 의심 (콘텐츠)"                     *)
(*   TEXT_CORRUPTION            "텍스트 손상"                              *)
(*   FORBIDDEN_PATTERN          "금지된 패턴 사용"                         *)
(*   GLOSSARY_NOT_APPLIED       "용어집 미적용"                            *)
(*   GLOSSARY_MISTRANSLATED     "용어집 오역/누락 의심"                    *)
(* `description` keeps what the f-string interpolates: the numbers and the *)
(* texts, and which of the fixed sentences carries them.                   *)
(***************************************************************************)
Description(kind, nums, texts) ==
    [kind |-> kind, nums |-> nums, texts |-> texts]

Issue(line_num, severity, type, description, original, translated, diff_text) ==
    [line_num |-> line_num, severity |-> severity, type |-> type,
     description |-> description, original |-> original,
     translated |-> translated, diff_text |-> diff_text]

\* f"`{macro}`"
Backticked(text) == << "BACKTICK" >> \o text \o << "BACKTICK" >>

(***************************************************************************)
(* _get_pure_text and _classify_line                                       *)
(***************************************************************************)
GetPureText(line) == RemoveCodeFrom(line, 1)


\* The chain with the headers and the comment looked for only after the
\* code and the text.
LineTypeOf_QuadrantFirst(line, stripped_line, pure_text, has_code) ==
    IF stripped_line = <<>> THEN "BLANK"
    ELSE IF has_code /\ pure_text = <<>> THEN "PURE_CODE"
    ELSE IF has_code /\ pure_text # <<>> THEN "MIXED_CONTENT"
    ELSE IF MatchPassageHeader(line) THEN "PASSAGE_HEADER"
    ELSE IF MatchMarkdownHeader(line) THEN "MARKDOWN_HEADER"
    ELSE IF MatchComment(stripped_line) THEN "COMMENT"
    ELSE IF ~has_code /\ pure_text # <<>> THEN "PURE_TEXT"
    ELSE "UNKNOWN_CODE"

\* The if/elif chain of _classify_line over its three locals.
LineTypeOf(line, stripped_line, pure_text, has_code) ==
    IF stripped_line = <<>> THEN "BLANK"
    ELSE IF MatchPassageHeader(line) THEN "PASSAGE_HEADER"
    ELSE IF MatchMarkdownHeader(line) THEN "MARKDOWN_HEADER"
    ELSE IF MatchComment(stripped_line) THEN "COMMENT"
    ELSE IF has_code /\ pure_text = <<>> THEN "PURE_CODE"
    ELSE IF ~has_code /\ pure_text # <<>> THEN "PURE_TEXT"
    ELSE IF has_code /\ pure_text # <<>> THEN "MIXED_CONTENT"
    ELSE "UNKNOWN_CODE"

ClassifyLine(line) ==
    LineTypeOf(line, Strip(line), Strip(GetPureText(line)), SearchCodeBlock(line))

(***************************************************************************)
(* _build_glossary_automaton: the glossary file's lines into the dict      *)
(* self.glossary (a function from key to mandated value); the automaton    *)
(* holds the same keys.                                                    *)
(***************************************************************************)
\* A line the loop skips: a comment, a blank line, or one without ':'.
GlossaryLineSkipped(line) ==
    \/ StartsWith(Strip(line), << "#" >>)
    \/ Strip(line) = <<>>
    \/ ~Contains(line, << ":" >>)

\* The two stripped parts of a line around its position c.
PartsAround(line, c) ==
    << Strip(Slice(line, 1, c - 1)), Strip(Slice(line, c + 1, Len(line))) >>

\* [p.strip() for p in line.split(':', 1)] of a line that holds a ':'.
GlossaryLineParts(line) == PartsAround(line, FindFrom(line, << ":" >>, 1))

\* The key as the glossary file writes it, and no other spelling.
GlossaryKeyVariants_AsWritten(eng_key) == {eng_key}

\* keys_to_add
GlossaryKeyVariants(eng_key) == {eng_key, Lower(eng_key), Capitalize(eng_key)}

\* One entry added to the dict g: a key already there keeps the value it
\* has.
GlossaryAddEntry(g, eng_key, kor_value) ==
    IF eng_key = <<>> \/ kor_value = <<>> THEN g
    ELSE [key \in DOMAIN g \cup GlossaryKeyVariants(eng_key) |->
             IF key \in DOMAIN g THEN g[key] ELSE kor_value]

\* One line of the file added to the dict g.
GlossaryAddLine(g, line) ==
    IF GlossaryLineSkipped(line) THEN g
    ELSE GlossaryAddEntry(g, GlossaryLineParts(line)[1], GlossaryLineParts(line)[2])

RECURSIVE BuildGlossaryFrom(_, _, _)
BuildGlossaryFrom(lines, n, g) ==
    IF n > Len(lines) THEN g
    ELSE BuildGlossaryFrom(lines, n + 1, GlossaryAddLine(g, lines[n]))

EmptyGlossary == [key \in {} |-> <<>>]

BuildGlossary(lines) == BuildGlossaryFrom(lines, 1, EmptyGlossary)

(***************************************************************************)
(* _check_line_count_and_structure                                         *)
(***************************************************************************)
\* [prefix + lines[i] for i in range(lo, hi)]
DiffLines(prefix, lines, lo, hi) ==
    [k \in 1..(IF hi > lo THEN hi - lo ELSE 0) |-> prefix \o lines[lo + k]]

\* The loop reporting every opcode but 'equal'.
OpcodeReported_Replace(tag) == tag # "equal"

\* The opcodes the loop reports: it skips 'equal' and 'replace'.
OpcodeReported(tag) == tag # "equal" /\ tag # "replace"

\* line_num without the step from the 0-based index.
ReportedLine_ZeroBased(i1) == i1

\* Every structural issue filed against the whole document.
ReportedLine_WholeDocument(i1) == 0

\* line_num=i1 + 1
ReportedLine(i1) == i1 + 1

\* The issue of one 'delete' or 'insert' opcode.
StructuralMismatchIssue(orig, trans, op) ==
    LET tag   == op[1]
        i1    == op[2]
        i2    == op[3]
        j1    == op[4]
        j2    == op[5]
        start == IF i1 - CONTEXT_LINES > 0 THEN i1 - CONTEXT_LINES ELSE 0
        end   == IF Len(orig) < i2 + CONTEXT_LINES
                 THEN Len(orig) ELSE i2 + CONTEXT_LINES
    IN  Issue(ReportedLine(i1), "CRITICAL", "STRUCTURAL_MISMATCH",
              IF tag = "delete"
              THEN Description("deleted_near_original_line", << i1 + 1 >>, <<>>)
              ELSE Description("added_near_translated_line", << j1 + 1 >>, <<>>),
              <<>>, <<>>,
              DiffLines(<< " ", " " >>, orig, start, i1)
                  \o (IF tag = "delete"
                      THEN DiffLines(<< "-", " " >>, orig, i1, i2)
                      ELSE DiffLines(<< "+", " " >>, trans, j1, j2))
                  \o DiffLines(<< " ", " " >>, orig, i2, end))

RECURSIVE StructuralMismatchIssues(_, _, _, _)
StructuralMismatchIssues(orig, trans, ops, n) ==
    IF n > Len(ops) THEN <<>>
    ELSE (IF OpcodeReported(ops[n][1])
          THEN << StructuralMismatchIssue(orig, trans, ops[n]) >>
          ELSE <<>>)
         \o StructuralMismatchIssues(orig, trans, ops, n + 1)

\* The early return with the comparison inverted.
LineCountsAgree_Inverted(orig, trans) == Len(orig) # Len(trans)

\* The early return: equal line counts are structurally sound.
LineCountsAgree(orig, trans) == Len(orig) = Len(trans)

\* What the method appends to self.issues.
LineCountAndStructureIssues(orig, trans) ==
    IF LineCountsAgree(orig, trans) THEN <<>>
    ELSE << Issue(0, "CRITICAL", "STRUCTURE_ERROR",
                  Description("line_count", << Len(orig), Len(trans) >>, <<>>),
                  <<>>, <<>>, <<>>) >>
         \o StructuralMismatchIssues(orig, trans, GetOpcodes(orig, trans), 1)

(***************************************************************************)
(* _extract_identifiers and _check_core_identifiers                        *)
(***************************************************************************)
\* `if '|' not in dest`
HasNoBar(text) == ~Contains(text, << "|" >>)

\* The matches of link_simple that hold no '|'.
PlainLinks(line) == SelectSeq(FindAllLinkSimple(line), HasNoBar)

\* The n-th member of each tuple.
Column(tuples, n) == [k \in 1..Len(tuples) |-> tuples[k][n]]

\* (text.strip(), n) for each text.
Numbered(texts, n) == [k \in 1..Len(texts) |-> << Strip(texts[k]), n >>]

\* The identifiers of one line, each with the line's number.
LineIdentifiers(line, n, id_type) ==
    IF id_type = "passage_header"
    THEN IF MatchPassageHeader(line) THEN << << Strip(line), n >> >> ELSE <<>>
    ELSE Numbered(Column(FindAllLinkWithDest(line), 2), n)
         \o Numbered(PlainLinks(line), n)

RECURSIVE ExtractIdentifiersFrom(_, _, _)
ExtractIdentifiersFrom(lines, n, id_type) ==
    IF n > Len(lines) THEN <<>>
    ELSE LineIdentifiers(lines[n], n, id_type)
         \o ExtractIdentifiersFrom(lines, n + 1, id_type)

ExtractIdentifiers(lines, id_type) == ExtractIdentifiersFrom(lines, 1, id_type)

\* [h for h, l in self._extract_identifiers(lines, "passage_header")]
PassageHeaders(lines) == Column(ExtractIdentifiers(lines, "passage_header"), 1)

\* {d for d, l in self._extract_identifiers(lines, "link_destination")}
LinkDestinations(lines) ==
    Range(Column(ExtractIdentifiers(lines, "link_destination"), 1))

\* sorted(list(S))[:5]
FirstFiveSorted(S) == Slice(Sorted(S), 1, 5)

\* The two header lists compared as sets.
HeadersDiffer_AsSets(orig_headers, trans_headers) ==
    Range(orig_headers) # Range(trans_headers)

\* The comparison of the two header lists.
HeadersDiffer(orig_headers, trans_headers) == orig_headers # trans_headers

\* The issue of a header mismatch, if any.
PassageHeaderIssues(orig, trans) ==
    IF HeadersDiffer(PassageHeaders(orig), PassageHeaders(trans))
    THEN << Issue(0, "CRITICAL", "PASSAGE_HEADER_MISMATCH",
                  Description("header_order_or_content", <<>>, <<>>),
                  <<>>, <<>>, <<>>) >>
    ELSE <<>>

\* desc of a set mismatch: the first five missing, then the first five
\* added; `nums` tells how many of `texts` are the missing ones.
SetMismatchDescription(kind, missing, added) ==
    Description(kind, << Len(FirstFiveSorted(missing)) >>,
                FirstFiveSorted(missing) \o FirstFiveSorted(added))

\* The issue of two identifier sets that differ, if they do.
SetMismatchIssues(type, kind, orig_set, trans_set) ==
    IF orig_set # trans_set
    THEN << Issue(0, "CRITICAL", type,
                  SetMismatchDescription(kind, orig_set \ trans_set,
                                         trans_set \ orig_set),
                  <<>>, <<>>, <<>>) >>
    ELSE <<>>

LinkDestinationIssues(orig, trans) ==
    SetMismatchIssues("LINK_DESTINATION_MISMATCH", "link_destinations",
                      LinkDestinations(orig), LinkDestinations(trans))

CoreIdentifierIssues(orig, trans) ==
    PassageHeaderIssues(orig, trans) \o LinkDestinationIssues(orig, trans)

(***************************************************************************)
(* _check_global_variable_consistency                                      *)
(***************************************************************************)
\* set(REGEX["variable"].findall("\n".join(lines))): no variable reference
\* holds a line break, so the matches are those of the lines.
DocumentVariables(lines) ==
    UNION {Range(FindAllVariable(lines[n])) : n \in 1..Len(lines)}

\* An issue only for variables that the candidate lost.
GlobalVariableIssues_MissingOnly(orig, trans) ==
    IF DocumentVariables(orig) \subseteq DocumentVariables(trans) THEN <<>>
    ELSE SetMismatchIssues("GLOBAL_VARIABLE_MISMATCH", "variables",
                           DocumentVariables(orig), DocumentVariables(trans))

GlobalVariableIssues(orig, trans) ==
    SetMismatchIssues("GLOBAL_VARIABLE_MISMATCH", "variables",
                      DocumentVariables(orig), DocumentVariables(trans))

(***************************************************************************)
(* The per-line checks of _check_all_lines                                 *)
(***************************************************************************)
\* _check_macro_corruption: the macro is looked into when it has a head
\* identifier that is not on the whitelist.
MacroIsChecked(trans_macro) ==
    /\ MacroName(trans_macro) # <<>>
    /\ MacroName(trans_macro) \notin TEXT_MACROS_WHITELIST

\* A literal with Hangul in it, a particle or not.
LiteralIsCorrupt_NoParticles(literal) == SearchKorean(literal)

\* Any literal that is not empty.
LiteralIsCorrupt_AnyLiteral(literal) == literal # <<>>

\* A literal the check takes for a translated code identifier.
LiteralIsCorrupt(literal) ==
    SearchKorean(literal) /\ literal \notin ALLOWED_POSTPOSITIONS

\* The literals of trans_macro[2:-2].strip() that the loop would report,
\* in order; the loop stops at the first.
CorruptLiterals(trans_macro) ==
    SelectSeq(FindAllStringLiteral(
                  Strip(Slice(trans_macro, 3, Len(trans_macro) - 2))),
              LiteralIsCorrupt)

\* The issue for one macro pair, if any.
MacroPairIssues(orig_macro, trans_macro, line_num) ==
    IF MacroIsChecked(trans_macro) /\ CorruptLiterals(trans_macro) # <<>>
    THEN << Issue(line_num, "CRITICAL", "MACRO_CORRUPTION",
                  Description("macro_literal_translated", <<>>,
                      << MacroName(trans_macro), Head(CorruptLiterals(trans_macro)) >>),
                  Backticked(orig_macro), Backticked(trans_macro), <<>>) >>
    ELSE <<>>

\* The macros are compared only when both lines hold as many.
MacroCountsAgree(original_macros, translated_macros) ==
    Len(original_macros) = Len(translated_macros)

\* The loop over zip(original_macros, translated_macros).
MacroListIssues(original_macros, translated_macros, line_num) ==
    IF MacroCountsAgree(original_macros, translated_macros)
    THEN Flatten([k \in 1..Len(translated_macros) |->
             MacroPairIssues(original_macros[k], translated_macros[k], line_num)])
    ELSE <<>>

CheckMacroCorruption(original_line, translated_line, line_num) ==
    MacroListIssues(FindAllMacro(original_line), FindAllMacro(translated_line),
                    line_num)

\* (m, m) for each m.
Paired(texts) == [k \in 1..Len(texts) |-> << texts[k], texts[k] >>]

\* _check_links_for_playability: all_links, each <<display_text, dest>>.
AllLinks(line) == FindAllLinkWithDest(line) \o Paired(PlainLinks(line))

\* The issue of one link, from its display text without code and the
\* number of words of that.
LinkTextIssues(display_text, pure_display_text, word_count, line, line_num) ==
    IF Strip(pure_display_text) = <<>>
    THEN << Issue(line_num, "WARNING", "EMPTY_INTERACTION",
                  Description("empty_link", <<>>, <<>>), <<>>, line, <<>>) >>
    ELSE IF MatchEnglishOnly(pure_display_text) /\ word_count > 0
    THEN << Issue(line_num,
                  IF word_count >= UNTRANSLATED_LINK_WORD_THRESHOLD
                  THEN "WARNING" ELSE "INFO",
                  "UNTRANSLATED_LINK",
                  Description("link_text_untranslated", <<>>, << display_text >>),
                  <<>>, line, <<>>) >>
    ELSE <<>>

LinkIssues(display_text, line, line_num) ==
    LinkTextIssues(display_text, GetPureText(display_text),
                   Len(FindAllWords(GetPureText(display_text))), line, line_num)

\* The loop over all_links.
LinkListIssues(all_links, line, line_num) ==
    Flatten([k \in 1..Len(all_links) |-> LinkIssues(all_links[k][1], line, line_num)])

CheckLinksForPlayability(line, line_num) ==
    LinkListIssues(AllLinks(line), line, line_num)

\* english_words of _check_untranslated_content.
EnglishWordCount(words) ==
    Cardinality({k \in 1..Len(words) :
                    MatchEnglishOnly(words[k]) /\ ~IsDigit(words[k])})

\* _check_untranslated_content, from pure_translated and its words.
UntranslatedContentIssues(pure_translated, words, original_line, translated_line, line_num, sound) ==
    IF Strip(pure_translated) = <<>> \/ SearchKorean(pure_translated)
    THEN <<>>
    ELSE IF words = <<>> THEN <<>>
    ELSE IF EnglishWordCount(words) * 100 >= ENGLISH_RATIO_THRESHOLD * Len(words)
    THEN << Issue(line_num,
                  IF sound /\ Strip(original_line) = Strip(translated_line)
                  THEN "WARNING" ELSE "INFO",
                  "UNTRANSLATED_CONTENT",
                  Description("untranslated_or_mostly_english", <<>>, <<>>),
                  original_line, translated_line, <<>>) >>
    ELSE <<>>

CheckUntranslatedContent(original_line, translated_line, line_num, sound) ==
    UntranslatedContentIssues(GetPureText(translated_line),
                              FindAllWords(GetPureText(translated_line)),
                              original_line, translated_line, line_num, sound)

\* _check_forbidden_patterns
CheckForbiddenPatterns(line, line_num) ==
    IF SearchForbiddenPattern(line)
    THEN << Issue(line_num, "WARNING", "FORBIDDEN_PATTERN",
                  Description("parenthesised_original", <<>>, <<>>),
                  <<>>, line, <<>>) >>
    ELSE <<>>

\* _check_text_corruption
CheckTextCorruption(line, line_num) ==
    IF SearchCorruptedChar(line)
    THEN << Issue(line_num, "CRITICAL", "TEXT_CORRUPTION",
                  Description("replacement_character", <<>>, <<>>),
                  <<>>, line, <<>>) >>
    ELSE <<>>

(***************************************************************************)
(* _check_glossary_compliance_nlp.  `tokens` is found_kor_tokens, the      *)
(* forms the morphological tokenizer reports for the candidate residue.    *)
(***************************************************************************)
\* {item[1][0] for item in self.glossary_automaton.iter(pure_original)}:
\* the keys that occur in the text.
FoundEngTerms(g, pure_original) ==
    {key \in DOMAIN g : Contains(pure_original, key)}

\* The mandated value is missing from the candidate residue.
ValueAbsent(kor_value, tokens, pure_translated) ==
    kor_value \notin tokens /\ ~Contains(pure_translated, kor_value)

\* The source term is still there in the letter case of the key.
TermStillPresent_CaseSensitive(eng_key, pure_translated) ==
    Contains(pure_translated, eng_key)

\* The source term is still there, whatever its letter case.
TermStillPresent(eng_key, pure_translated) ==
    Contains(Lower(pure_translated), Lower(eng_key))

\* The issue for one found key with its mandated value, if any.
GlossaryValueIssues(eng_key, kor_value, tokens, pure_translated, original_line, translated_line, line_num) ==
    IF ValueAbsent(kor_value, tokens, pure_translated)
    THEN IF TermStillPresent(eng_key, pure_translated)
         THEN << Issue(line_num, "INFO", "GLOSSARY_NOT_APPLIED",
                       Description("term_left_untranslated", <<>>, << eng_key >>),
                       original_line, translated_line, <<>>) >>
         ELSE << Issue(line_num, "WARNING", "GLOSSARY_MISTRANSLATED",
                       Description("term_value_missing", <<>>,
                           << eng_key, kor_value >>),
                       original_line, translated_line, <<>>) >>
    ELSE <<>>

\* The issue for one found key, if any.
GlossaryTermIssues(g, eng_key, tokens, original_line, translated_line, line_num) ==
    GlossaryValueIssues(eng_key, g[eng_key], tokens, GetPureText(translated_line),
                        original_line, translated_line, line_num)

\* What the loop over found_eng_terms may append: a set of str, which the
\* loop visits in an order that the hash seed of the run decides.
GlossaryFoundIssues(g, found, tokens, original_line, translated_line, line_num) ==
    IF found = {} THEN { <<>> }
    ELSE { Flatten([k \in 1..Len(order) |->
               GlossaryTermIssues(g, order[k], tokens, original_line,
                                  translated_line, line_num)])
           : order \in Orderings(found) }

\* What the method may append.
CheckGlossaryComplianceNlp(g, tokens, original_line, translated_line, line_num) ==
    IF DOMAIN g = {} \/ Strip(GetPureText(original_line)) = <<>>
    THEN { <<>> }
    ELSE GlossaryFoundIssues(g, FoundEngTerms(g, GetPureText(original_line)),
                             tokens, original_line, translated_line, line_num)

(***************************************************************************)
(* _check_all_lines                                                        *)
(***************************************************************************)
\* The line types that get the text checks, and those that get the macro
\* check.
TextLineTypes == {"PURE_TEXT", "MIXED_CONTENT"}
CodeLineTypes == {"PURE_CODE", "MIXED_CONTENT", "UNKNOWN_CODE"}

\* Iteration i reads self.original_lines[i] only for a sound pair.
SourceLineIsIndexed(sound) == sound

\* original_line of iteration i (1-based here).
OriginalLineFor(orig, i, sound) ==
    IF SourceLineIsIndexed(sound) THEN orig[i] ELSE <<>>

\* The glossary check runs on a text line of a sound pair.
GlossaryCheckRuns(line_type, sound) == line_type \in TextLineTypes /\ sound

\* The macro check on every code line, sound pair or not.
MacroCheckRuns_Unguarded(line_type, sound) == line_type \in CodeLineTypes

\* The macro check runs on a code line of a sound pair.
MacroCheckRuns(line_type, sound) == sound /\ line_type \in CodeLineTypes

\* The checks an iteration invokes for a line of the given type, each with
\* the line number it is given.
ChecksInvoked(line_type, i, sound) ==
    (IF line_type \in TextLineTypes
     THEN {<< "_check_links_for_playability", i >>,
           << "_check_untranslated_content", i >>,
           << "_check_forbidden_patterns", i >>}
     ELSE {})
    \cup (IF GlossaryCheckRuns(line_type, sound)
          THEN {<< "_check_glossary_compliance_nlp", i >>} ELSE {})
    \cup (IF MacroCheckRuns(line_type, sound)
          THEN {<< "_check_macro_corruption", i >>} ELSE {})
    \cup {<< "_check_text_corruption", i >>}

LineInvocations(trans, i, sound) == ChecksInvoked(ClassifyLine(trans[i]), i, sound)

\* The three checks of a text line.
TextChecks(line_type, original_line, translated_line, line_num, sound) ==
    IF line_type \in TextLineTypes
    THEN CheckLinksForPlayability(translated_line, line_num)
         \o CheckUntranslatedContent(original_line, translated_line, line_num, sound)
         \o CheckForbiddenPatterns(translated_line, line_num)
    ELSE <<>>

GlossaryChecks(line_type, g, tokens, original_line, translated_line, line_num, sound) ==
    IF GlossaryCheckRuns(line_type, sound)
    THEN CheckGlossaryComplianceNlp(g, tokens, original_line, translated_line,
                                    line_num)
    ELSE { <<>> }

MacroChecks(line_type, original_line, translated_line, line_num, sound) ==
    IF MacroCheckRuns(line_type, sound)
    THEN CheckMacroCorruption(original_line, translated_line, line_num)
    ELSE <<>>

\* The sequences of issues one iteration may append for a line of the
\* given type.
TypedLineOutcomes(line_type, g, tokens, original_line, translated_line, line_num, sound) ==
    { TextChecks(line_type, original_line, translated_line, line_num, sound)
          \o from_glossary
          \o MacroChecks(line_type, original_line, translated_line, line_num, sound)
          \o CheckTextCorruption(translated_line, line_num)
      : from_glossary \in GlossaryChecks(line_type, g, tokens, original_line,
                                         translated_line, line_num, sound) }

\* The sequences of issues iteration i may append.
LineOutcomes(orig, trans, g, tokens, sound, i) ==
    TypedLineOutcomes(ClassifyLine(trans[i]), g, tokens[i],
                      OriginalLineFor(orig, i, sound), trans[i], i, sound)

RECURSIVE AllLinesOutcomes(_, _, _, _, _, _)
AllLinesOutcomes(orig, trans, g, tokens, sound, i) ==
    IF i > Len(trans) THEN { <<>> }
    ELSE { first \o rest :
             first \in LineOutcomes(orig, trans, g, tokens, sound, i),
             rest \in AllLinesOutcomes(orig, trans, g, tokens, sound, i + 1) }

(***************************************************************************)
(* run_auto_fixer: the three fix_patterns, each as what pattern.sub does    *)
(***************************************************************************)
\* `_\s*[가-힣]+>>` matched at h, where the syllables begin: the index of
\* the last character of the match, 0 for no match.
SyllablesThenClose(s, h) ==
    IF /\ RunEnd(s, h, "hangul") >= h
       /\ Slice(s, RunEnd(s, h, "hangul") + 1, RunEnd(s, h, "hangul") + 2)
             = << ">", ">" >>
    THEN RunEnd(s, h, "hangul") + 2
    ELSE 0

\* `_\s*[가-힣]+>>` matched at q.
ParticleSuffixEnd(s, q) ==
    IF q > Len(s) \/ s[q] # "_" THEN 0
    ELSE SyllablesThenClose(s, RunEnd(s, q + 1, "space") + 1)

\* `"[^"]+"` matched at t: the index of the closing quote, 0 for no match.
QuotedEnd(s, t) ==
    IF FindFrom(s, << "\"" >>, t + 1) > t + 1
    THEN FindFrom(s, << "\"" >>, t + 1) ELSE 0

\* `\$[a-zA-Z0-9_.]+` matched at t, e being the end of the run of name
\* characters: the run gives back a final underscore when that underscore
\* begins the particle suffix, as no other split lets the pattern match.
VarEnd(s, t, e) ==
    IF e <= t THEN 0
    ELSE IF e > t + 1 /\ s[e] = "_" /\ ParticleSuffixEnd(s, e) # 0 THEN e - 1
    ELSE e

\* `(?:[0-9]+|"[^"]+"|\$[a-zA-Z0-9_.]+)` matched at t: the index of the
\* last character of the value, 0 for no match.
ArgValueEnd(s, t) ==
    IF t > Len(s) THEN 0
    ELSE IF s[t] \in Digits THEN RunEnd(s, t, "digit")
    ELSE IF s[t] = "\"" THEN QuotedEnd(s, t)
    ELSE IF s[t] = "$" THEN VarEnd(s, t, RunEnd(s, t + 1, "var"))
    ELSE 0

\* `(?:\s+(?:...))+` followed by the particle suffix, matched at q after n
\* values: the index of the underscore that begins the suffix, 0 for no
\* match.
RECURSIVE ArgsThenSuffix(_, _, _)
RECURSIVE ArgsAfterValue(_, _, _)
ArgsThenSuffix(s, q, n) ==
    IF n > 0 /\ ParticleSuffixEnd(s, q) # 0 THEN q
    ELSE IF q <= Len(s) /\ IsSpace(s[q])
    THEN ArgsAfterValue(s, ArgValueEnd(s, RunEnd(s, q, "space") + 1), n)
    ELSE 0

ArgsAfterValue(s, e, n) == IF e = 0 THEN 0 ELSE ArgsThenSuffix(s, e + 1, n + 1)

\* fix_patterns[0] matched at p: the index of the underscore that begins
\* group 3, 0 for no match.  Group 1 is the run of name characters after
\* `<<`, group 2 lies between group 1 and group 3.
MisplacedParticleAt(s, p) ==
    IF Slice(s, p, p + 1) = << "<", "<" >> /\ RunEnd(s, p + 2, "ident") >= p + 2
    THEN ArgsThenSuffix(s, RunEnd(s, p + 2, "ident") + 1, 0)
    ELSE 0

\* fix_patterns[1] matched at p: the index of the underscore between the
\* two groups, 0 for no match.  The name has one character at least.
ClosingParticleAt(s, p) ==
    IF /\ Slice(s, p, p + 2) = << "<", "<", "/" >>
       /\ RunEnd(s, p + 3, "ident") >= p + 4
       /\ ParticleSuffixEnd(s, RunEnd(s, p + 3, "ident")) # 0
    THEN RunEnd(s, p + 3, "ident")
    ELSE 0

\* fix_patterns[2] matched at p:  (?<!<)</if>>
BrokenEndIfAt(s, p) ==
    /\ Slice(s, p, p + 5) = << "<", "/", "i", "f", ">", ">" >>
    /\ (p = 1 \/ s[p - 1] # "<")

\* fix_patterns[k] matched at p: the index of the last character of the
\* match, 0 for no match.
FixPatternMatchEnd(k, s, p) ==
    CASE k = 1 -> IF MisplacedParticleAt(s, p) = 0 THEN 0
                  ELSE ParticleSuffixEnd(s, MisplacedParticleAt(s, p))
      [] k = 2 -> IF ClosingParticleAt(s, p) = 0 THEN 0
                  ELSE ParticleSuffixEnd(s, ClosingParticleAt(s, p))
      [] k = 3 -> IF BrokenEndIfAt(s, p) THEN p + 5 ELSE 0

\* The substitution of fix_patterns[k] for its match at p that ends at e:
\* <<\1\3\2>>, \1>>\2 and <</if>>.
FixPatternReplacement(k, s, p, e) ==
    CASE k = 1 -> Slice(s, p, RunEnd(s, p + 2, "ident"))
                  \o Slice(s, MisplacedParticleAt(s, p), e - 2)
                  \o Slice(s, RunEnd(s, p + 2, "ident") + 1,
                           MisplacedParticleAt(s, p) - 1)
                  \o << ">", ">" >>
      [] k = 2 -> Slice(s, p, ClosingParticleAt(s, p) - 1) \o << ">", ">" >>
                  \o Slice(s, ClosingParticleAt(s, p) + 1, e - 2)
      [] k = 3 -> << "<", "<", "/", "i", "f", ">", ">" >>

\* pattern.sub(substitution, s) for fix_patterns[k], from position p on:
\* the matches are taken leftmost first and do not overlap.
RECURSIVE SubFrom(_, _, _)
SubFrom(k, s, p) ==
    IF p > Len(s) THEN << >>
    ELSE IF FixPatternMatchEnd(k, s, p) # 0
    THEN FixPatternReplacement(k, s, p, FixPatternMatchEnd(k, s, p))
         \o SubFrom(k, s, FixPatternMatchEnd(k, s, p) + 1)
    ELSE << s[p] >> \o SubFrom(k, s, p + 1)

\* The inner loop of run_auto_fixer: the three substitutions in order.
FixLine(line) == SubFrom(3, SubFrom(2, SubFrom(1, line, 1), 1), 1)

\* fixed_lines of run_auto_fixer.
FixedLines(lines) == [i \in 1..Len(lines) |-> FixLine(lines[i])]

\* The record appended to fixes for line i.
FixRecord(lines, i) ==
    [line_num |-> i, original |-> lines[i], translated |-> FixLine(lines[i])]

\* fixes of run_auto_fixer, from line i on.
RECURSIVE FixesFrom(_, _)
FixesFrom(lines, i) ==
    IF i > Len(lines) THEN << >>
    ELSE IF FixLine(lines[i]) # lines[i]
    THEN << FixRecord(lines, i) >> \o FixesFrom(lines, i + 1)
    ELSE FixesFrom(lines, i + 1)

\* "\n".join(lines)
RECURSIVE JoinLines(_)
JoinLines(lines) ==
    IF lines = << >> THEN << >>
    ELSE IF Len(lines) = 1 THEN lines[1]
    ELSE lines[1] \o << "\n" >> \o JoinLines(Tail(lines))

\* str.splitlines() of a text whose only line boundary is "\n": the text
\* after the last boundary is a line only when it is not empty.
RECURSIVE SplitLines(_)
SplitLines(text) ==
    IF text = << >> THEN << >>
    ELSE IF FindFrom(text, << "\n" >>, 1) = 0 THEN << text >>
    ELSE << Slice(text, 1, FindFrom(text, << "\n" >>, 1) - 1) >>
         \o SplitLines(Slice(text, FindFrom(text, << "\n" >>, 1) + 1, Len(text)))

(***************************************************************************)
(* translator.py: a text is the sequence of the characters of a file, its   *)
(* line boundaries being "\n" characters                                    *)
(***************************************************************************)
CHUNK_THRESHOLD_BYTES == 60000

MAX_CONCURRENT_REQUESTS == 3

\* p is where a line of the text starts: `^` under re.MULTILINE.
IsLineStart(text, p) == p = 1 \/ (p <= Len(text) + 1 /\ text[p - 1] = "\n")

\* `^:: ` matches at p.
HeaderStartsAt(text, p) ==
    IsLineStart(text, p) /\ Slice(text, p, p + 2) = << ":", ":", " " >>

\* The last character of the line that holds position p: where `.*$` ends.
EndOfLine(text, p) == LeastOr({q \in p..Len(text) : text[q] = "\n"}, Len(text) + 1) - 1

\* The least q >= p at which `^:: .*$` matches, 0 when there is none.
NextHeader(text, p) == LeastOr({q \in p..Len(text) : HeaderStartsAt(text, q)}, 0)

\* re.split(r'(^:: .*$)', text, flags=re.MULTILINE) from position p on:
\* the text before each match, then the match, and the rest at the end.
RECURSIVE ReSplitFrom(_, _)
ReSplitFrom(text, p) ==
    IF NextHeader(text, p) = 0 THEN << Slice(text, p, Len(text)) >>
    ELSE << Slice(text, p, NextHeader(text, p) - 1),
            Slice(text, NextHeader(text, p), EndOfLine(text, NextHeader(text, p))) >>
         \o ReSplitFrom(text, EndOfLine(text, NextHeader(text, p)) + 1)

\* chunks of translate_large_file_in_chunks.
ReSplit(full_content) == ReSplitFrom(full_content, 1)

\* text.strip() is empty: nothing but blanks and line boundaries.
StripsToNothing(text) ==
    \A k \in 1..Len(text) : IsSpace(text[k]) \/ text[k] = "\n"

\* The units chunks[i] + chunks[i+1] for i = 1, 3, ... (0-based).
PassageUnits(chunks) ==
    [k \in 1..((Len(chunks) - 1) \div 2) |-> chunks[2 * k] \o chunks[2 * k + 1]]

\* passages of translate_large_file_in_chunks: chunks[0] when it is not
\* blank, then the units.
PassagesOf(chunks) ==
    (IF StripsToNothing(chunks[1]) THEN << >> ELSE << chunks[1] >>)
    \o PassageUnits(chunks)

\* What process_file hands to translate_chunk for a file: the passages of a
\* file above the threshold, the whole text of any other.
ChunksOf(file) ==
    IF file.size > CHUNK_THRESHOLD_BYTES THEN PassagesOf(ReSplit(file.text))
    ELSE << file.text >>

\* What the service answers for a text: its prose in Korean, every other
\* character as it was.
TranslateChar(c) == IF c = "x" THEN "KO_ga" ELSE c

ResponseText(chunk_content) ==
    [k \in 1..Len(chunk_content) |-> TranslateChar(chunk_content[k])]

(***************************************************************************)
(* The validator: one instance, constructed, then run_all_checks           *)
(***************************************************************************)
VARIABLES
    original_lines,         \* self.original_lines
    translated_lines,       \* self.translated_lines
    glossary_lines,         \* the lines of the file at glossary_path
    glossary,               \* self.glossary, as built by the constructor
    kiwi,                   \* per candidate line, the forms kiwi.tokenize gives
    issues,                 \* self.issues
    is_structurally_sound,  \* the local of run_all_checks
    pc,                     \* the statement of run_all_checks to run next
    invoked,                \* the per-line checks called so far, with their line
    indexed_reads           \* the i for which self.original_lines[i] was read
                            \* by _check_all_lines (1-based)

VARIABLES
    fixed_lines,            \* fixed_lines of run_auto_fixer
    fixes,                  \* fixes of run_auto_fixer
    output_file,            \* the text of the file at output_path
    fixer_pc,               \* what the fixer does next
    passes                  \* the calls of run_auto_fixer so far

fixer_vars == << fixed_lines, fixes, output_file, fixer_pc, passes >>

VARIABLES
    source_files,           \* the files of SOURCE_FOLDER: text and size
    file_pc,                \* per file, where its process_file stands
    chunks,                 \* per file, the texts handed to translate_chunk
    requests,               \* per file and chunk, the call of translate_chunk
    completed,              \* per file, its calls in the order they returned
    semaphore,              \* the value of the asyncio.Semaphore of main
    outputs                 \* per file, what process_file made of it

translator_vars ==
    << source_files, file_pc, chunks, requests, completed, semaphore, outputs >>

validator_vars ==
    << original_lines, translated_lines, glossary_lines, glossary, kiwi, issues,
       is_structurally_sound, pc, invoked, indexed_reads >>

vars == << validator_vars, fixer_vars, translator_vars >>

\* The translated file that does not exist.
NotWritten == << "not written" >>

\* main of translator.py up to asyncio.gather, for the given source files:
\* a semaphore of MAX_CONCURRENT_REQUESTS and one process_file per file.
TranslatorStarts(files) ==
    /\ source_files = files
    /\ file_pc = [f \in 1..Len(files) |-> "process_file"]
    /\ chunks = [f \in 1..Len(files) |-> << >>]
    /\ requests = [f \in 1..Len(files) |-> << >>]
    /\ completed = [f \in 1..Len(files) |-> << >>]
    /\ semaphore = MAX_CONCURRENT_REQUESTS
    /\ outputs = [f \in 1..Len(files) |->
                     [final |-> << >>, validated |-> FALSE,
                      written |-> NotWritten, returned |-> "pending"]]

\* The state after __init__ for the given files; `forms` is what the
\* tokenizer can find in a text.
InitWith(sources, candidates, glossaries, forms) ==
    /\ original_lines \in sources
    /\ translated_lines \in candidates
    /\ glossary_lines \in glossaries
    /\ glossary = BuildGlossary(glossary_lines)
    /\ kiwi \in [1..Len(translated_lines) -> SUBSET forms]
    /\ \A i \in 1..Len(translated_lines) :
          Strip(GetPureText(translated_lines[i])) = <<>> => kiwi[i] = {}
    /\ issues = <<>>
    /\ is_structurally_sound = FALSE
    /\ pc = "_check_line_count_and_structure"
    /\ invoked = {}
    /\ indexed_reads = {}
    /\ fixed_lines = << >>
    /\ fixes = << >>
    /\ output_file = << >>
    /\ fixer_pc = "run_auto_fixer"
    /\ passes = 0
    /\ TranslatorStarts(<< >>)

\* is_structurally_sound = self._check_line_count_and_structure()
CheckLineCountAndStructure ==
    /\ pc = "_check_line_count_and_structure"
    /\ is_structurally_sound' = LineCountsAgree(original_lines, translated_lines)
    /\ issues' = issues \o LineCountAndStructureIssues(original_lines, translated_lines)
    /\ pc' = "_check_core_identifiers"
    /\ UNCHANGED << original_lines, translated_lines, glossary_lines, glossary,
                    kiwi, invoked, indexed_reads, fixer_vars, translator_vars >>

\* self._check_core_identifiers()
CheckCoreIdentifiers ==
    /\ pc = "_check_core_identifiers"
    /\ issues' = issues \o CoreIdentifierIssues(original_lines, translated_lines)
    /\ pc' = "_check_global_variable_consistency"
    /\ UNCHANGED << original_lines, translated_lines, glossary_lines, glossary,
                    kiwi, is_structurally_sound, invoked, indexed_reads,
                    fixer_vars, translator_vars >>

\* self._check_global_variable_consistency()
CheckGlobalVariableConsistency ==
    /\ pc = "_check_global_variable_consistency"
    /\ issues' = issues \o GlobalVariableIssues(original_lines, translated_lines)
    /\ pc' = "_check_all_lines"
    /\ UNCHANGED << original_lines, translated_lines, glossary_lines, glossary,
                    kiwi, is_structurally_sound, invoked, indexed_reads,
                    fixer_vars, translator_vars >>

\* self._check_all_lines(is_structurally_sound)
CheckAllLines ==
    /\ pc = "_check_all_lines"
    /\ \E appended \in AllLinesOutcomes(original_lines, translated_lines, glossary,
                                        kiwi, is_structurally_sound, 1) :
          issues' = issues \o appended
    /\ invoked' = invoked \cup
          UNION {LineInvocations(translated_lines, i, is_structurally_sound)
                 : i \in 1..Len(translated_lines)}
    /\ indexed_reads' = indexed_reads \cup
          {i \in 1..Len(translated_lines) : SourceLineIsIndexed(is_structurally_sound)}
    /\ pc' = "done"
    /\ UNCHANGED << original_lines, translated_lines, glossary_lines, glossary,
                    kiwi, is_structurally_sound, fixer_vars, translator_vars >>

Next ==
    \/ CheckLineCountAndStructure
    \/ CheckCoreIdentifiers
    \/ CheckGlobalVariableConsistency
    \/ CheckAllLines

(***************************************************************************)
(* The documents the validator is run on                                   *)
(***************************************************************************)
\* The documents of at most n lines, each line from `lines`.
Documents(lines, n) == UNION {[1..k -> lines] : k \in 0..n}

NoGlossary == << >>

\* Documents for the structural aligner: three different lines of prose.
MaxAlignLines == 3

AlignLines == { << "a" >>, << "b" >>, << "c" >> }

Init ==
    InitWith(Documents(AlignLines, MaxAlignLines),
             Documents(AlignLines, MaxAlignLines), {NoGlossary}, {})

Spec == Init /\ [][Next]_vars

\* Documents for the macro check: lines that hold macro invocations, as the
\* source has them and as a translation may return them.
MaxMacroLines == 2

MacroSourceLines ==
    \* <<npc "Great Hawk">>
    { << "<", "<", "n", "p", "c", " ", "\"", "G", "r", "e", "a", "t", " ",
         "H", "a", "w", "k", "\"", ">", ">" >>,
    \* a <<npc "매">>
      << "a", " ", "<", "<", "n", "p", "c", " ", "\"", "KO_mae", "\"", ">",
         ">" >>,
    \* a <<trCreature "struggle" "lurker">>s
      << "a", " ", "<", "<", "t", "r", "C", "r", "e", "a", "t", "u", "r", "e",
         " ", "\"", "s", "t", "r", "u", "g", "g", "l", "e", "\"", " ", "\"",
         "l", "u", "r", "k", "e", "r", "\"", ">", ">", "s" >>,
    \* <<npc "a">><<pc "b">>
      << "<", "<", "n", "p", "c", " ", "\"", "a", "\"", ">", ">", "<", "<",
         "p", "c", " ", "\"", "b", "\"", ">", ">" >> }

MacroCandidateLines ==
    \* <<npc "거대 매">>
    { << "<", "<", "n", "p", "c", " ", "\"", "KO_geo", "KO_dae", " ",
         "KO_mae", "\"", ">", ">" >>,
    \* 새 <<npc "매">>
      << "KO_sae", " ", "<", "<", "n", "p", "c", " ", "\"", "KO_mae", "\"",
         ">", ">" >>,
    \* :: <<npc "매">>
      << ":", ":", " ", "<", "<", "n", "p", "c", " ", "\"", "KO_mae", "\"",
         ">", ">" >>,
    \* <<npc "이" "매" "새">>
      << "<", "<", "n", "p", "c", " ", "\"", "KO_i", "\"", " ", "\"",
         "KO_mae", "\"", " ", "\"", "KO_sae", "\"", ">", ">" >>,
    \* <<say "매">><<pc "새">>
      << "<", "<", "s", "a", "y", " ", "\"", "KO_mae", "\"", ">", ">", "<",
         "<", "p", "c", " ", "\"", "KO_sae", "\"", ">", ">" >>,
    \* 새 <<trCreature "struggle" "lurker">>s
      << "KO_sae", " ", "<", "<", "t", "r", "C", "r", "e", "a", "t", "u", "r",
         "e", " ", "\"", "s", "t", "r", "u", "g", "g", "l", "e", "\"", " ",
         "\"", "l", "u", "r", "k", "e", "r", "\"", ">", ">", "s" >>,
    \* <<npc "매">><<pc "새">>
      << "<", "<", "n", "p", "c", " ", "\"", "KO_mae", "\"", ">", ">", "<",
         "<", "p", "c", " ", "\"", "KO_sae", "\"", ">", ">" >> }

InitMacro ==
    InitWith(Documents(MacroSourceLines, MaxMacroLines),
             Documents(MacroCandidateLines, MaxMacroLines), {NoGlossary}, {})

SpecMacro == InitMacro /\ [][Next]_vars

\* Documents for the identifier checks: passage headers, one of them also
\* with a trailing blank, and lines that refer to a variable.
MaxIdentLines == 2

IdentLines ==
    \* :: A
    { << ":", ":", " ", "A" >>,
    \* :: B
      << ":", ":", " ", "B" >>,
    \* :: A 
      << ":", ":", " ", "A", " " >>,
    \* $a
      << "$", "a" >>,
    \* $b
      << "$", "b" >> }

InitIdent ==
    InitWith(Documents(IdentLines, MaxIdentLines),
             Documents(IdentLines, MaxIdentLines), {NoGlossary}, {})

SpecIdent == InitIdent /\ [][Next]_vars

\* Documents for the glossary check: glossary files, prose that holds a
\* term in several letter cases, and translations of it.
MaxGlossLines == 2

\* "Hawk : 매" alone, and after a comment line and before "HAWK : 새".
GlossaryFiles ==
    { << << "H", "a", "w", "k", " ", ":", " ", "KO_mae" >> >>,
      << << "#", " ", "b", "i", "r", "d", "s" >>,
         << "H", "a", "w", "k", " ", ":", " ", "KO_mae" >>,
         << "H", "A", "W", "K", " ", ":", " ", "KO_sae" >> >> }

GlossSourceLines ==
    \* Hawk
    { << "H", "a", "w", "k" >>,
    \* HAWK
      << "H", "A", "W", "K" >>,
    \* Hawk hawk
      << "H", "a", "w", "k", " ", "h", "a", "w", "k" >> }

GlossCandidateLines ==
    \* 매
    { << "KO_mae" >>,
    \* 호크
      << "KO_ho", "KO_keu" >>,
    \* hawk
      << "h", "a", "w", "k" >>,
    \* # 호크
      << "#", " ", "KO_ho", "KO_keu" >> }

\* The forms the tokenizer may report for a candidate line.
GlossForms == { << "KO_mae" >> }

InitGloss ==
    InitWith(Documents(GlossSourceLines, MaxGlossLines),
             Documents(GlossCandidateLines, MaxGlossLines), GlossaryFiles,
             GlossForms)

SpecGloss == InitGloss /\ [][Next]_vars

\* Documents for the link check: a link alone on its line, with and without
\* display text, links after translated prose with an empty, a one-word,
\* a four-word and a translated display text, and a link in a passage
\* header.
MaxLinkLines == 2

LinkSourceLines ==
    \* [[N]]
    { << "[", "[", "N", "]", "]" >>,
    \* :: [[N]]
      << ":", ":", " ", "[", "[", "N", "]", "]" >> }

LinkCandidateLines ==
    \* [[N]]
    { << "[", "[", "N", "]", "]" >>,
    \* [[ |N]]
      << "[", "[", " ", "|", "N", "]", "]" >>,
    \* 가 [[N]]
      << "KO_ga", " ", "[", "[", "N", "]", "]" >>,
    \* 가 [[ |N]]
      << "KO_ga", " ", "[", "[", " ", "|", "N", "]", "]" >>,
    \* 가 [[a b c d|N]]
      << "KO_ga", " ", "[", "[", "a", " ", "b", " ", "c", " ", "d", "|", "N",
         "]", "]" >>,
    \* :: [[N]]
      << ":", ":", " ", "[", "[", "N", "]", "]" >>,
    \* 가 [[매|N]]
      << "KO_ga", " ", "[", "[", "KO_mae", "|", "N", "]", "]" >> }

InitLink ==
    InitWith(Documents(LinkSourceLines, MaxLinkLines),
             Documents(LinkCandidateLines, MaxLinkLines), {NoGlossary}, {})

SpecLink == InitLink /\ [][Next]_vars

\* Documents for the line classification: a line of blanks, a passage
\* header that holds a macro, a header sigil after a blank, a markdown header,
\* a hash without a blank after it, a closed and an open block comment, a
\* markup comment, a macro, a word, and a word with a macro.
MaxClassLines == 2

ClassCandidateLines ==
    \* __
    { << " ", " " >>,
    \* :: a <<x>>
      << ":", ":", " ", "a", " ", "<", "<", "x", ">", ">" >>,
    \*  :: a
      << " ", ":", ":", " ", "a" >>,
    \* # a
      << "#", " ", "a" >>,
    \* #a
      << "#", "a" >>,
    \* /* a */ b
      << "/", "*", " ", "a", " ", "*", "/", " ", "b" >>,
    \* /* a
      << "/", "*", " ", "a" >>,
    \* <!-- a -->
      << "<", "!", "-", "-", " ", "a", " ", "-", "-", ">" >>,
    \* <<x>>
      << "<", "<", "x", ">", ">" >>,
    \* a
      << "a" >>,
    \* a <<x>>
      << "a", " ", "<", "<", "x", ">", ">" >> }

InitClass ==
    InitWith(Documents({<< "a" >>}, MaxClassLines),
             Documents(ClassCandidateLines, MaxClassLines), {NoGlossary}, {})

SpecClass == InitClass /\ [][Next]_vars

(***************************************************************************)
(* The auto-fixer: run_auto_fixer of one instance, and the instance that   *)
(* is constructed next on the file it wrote                                *)
(***************************************************************************)
\* How many times the fixer is run on end, each time on the file the
\* previous run wrote.
MaxFixerPasses == 2

\* fixer_validator.run_auto_fixer(output_path): every line goes through
\* the fix patterns, the lines are written joined by "\n".
RunAutoFixer ==
    /\ fixer_pc = "run_auto_fixer"
    /\ fixed_lines' = FixedLines(translated_lines)
    /\ fixes' = FixesFrom(translated_lines, 1)
    /\ output_file' = JoinLines(FixedLines(translated_lines))
    /\ passes' = passes + 1
    /\ fixer_pc' = "written"
    /\ UNCHANGED << original_lines, translated_lines, glossary_lines, glossary,
                    kiwi, issues, is_structurally_sound, pc, invoked,
                    indexed_reads, translator_vars >>

\* TweeL10nValidator(original_path, fixed_file_path, glossary_path): the
\* next instance reads its candidate from the file the fixer wrote.
LoadFixedFile ==
    /\ fixer_pc = "written"
    /\ passes < MaxFixerPasses
    /\ translated_lines' = SplitLines(output_file)
    /\ kiwi' = [i \in 1..Len(translated_lines') |-> {}]
    /\ fixer_pc' = "run_auto_fixer"
    /\ UNCHANGED << original_lines, glossary_lines, glossary, issues,
                    is_structurally_sound, pc, invoked, indexed_reads,
                    fixed_lines, fixes, output_file, passes, translator_vars >>

NextFixer ==
    \/ RunAutoFixer
    \/ LoadFixedFile

\* Documents for the fixer: a macro whose quoted argument holds a macro, a
\* particle after the arguments, a particle inside a closing tag, a closing
\* tag that lost a bracket, a line no pattern matches and an empty line.
MaxFixerLines == 2

FixerLines ==
    \* <<a "<<b 1_이>>"_가>>
    { << "<", "<", "a", " ", "\"", "<", "<", "b", " ", "1", "_", "KO_i", ">",
         ">", "\"", "_", "KO_ga", ">", ">" >>,
    \* <<npc "x"_이>>
      << "<", "<", "n", "p", "c", " ", "\"", "x", "\"", "_", "KO_i", ">",
         ">" >>,
    \* <</if_이>>
      << "<", "<", "/", "i", "f", "_", "KO_i", ">", ">" >>,
    \* </if>>
      << "<", "/", "i", "f", ">", ">" >>,
    \* a
      << "a" >>,
    \* an empty line
      << >> }

InitFixer ==
    InitWith(Documents({<< "a" >>}, MaxFixerLines),
             Documents(FixerLines, MaxFixerLines), {NoGlossary}, {})

SpecFixer == InitFixer /\ [][NextFixer]_vars

(***************************************************************************)
(* The translator: main of translator.py, one process_file per source file, *)
(* one translate_chunk per chunk, all under one semaphore                   *)
(***************************************************************************)
\* The call of translate_chunk that waits at `async with semaphore`.
WaitingRequest(chunk_content) ==
    [state |-> "waiting", outcome |-> "none", chunk |-> chunk_content,
     result |-> << >>, returned_at |-> 0]

\* process_file up to its first await of translate_chunk: the file is read
\* and, above the threshold, split; every chunk gets its call, and the calls
\* of a split file are gathered.
ProcessFile(f) ==
    /\ file_pc[f] = "process_file"
    /\ chunks' = [chunks EXCEPT ![f] = ChunksOf(source_files[f])]
    /\ requests' = [requests EXCEPT ![f] =
          [i \in 1..Len(ChunksOf(source_files[f])) |->
              WaitingRequest(ChunksOf(source_files[f])[i])]]
    /\ file_pc' = [file_pc EXCEPT ![f] = "gather"]
    /\ UNCHANGED << validator_vars, fixer_vars, source_files, completed,
                    semaphore, outputs >>

\* A call that would start its request without waiting for a permit.
AcquirePermit_WithoutWaiting(f, i) ==
    /\ requests[f][i].state = "waiting"
    /\ semaphore' = semaphore - 1
    /\ requests' = [requests EXCEPT ![f][i].state = "in_flight"]
    /\ UNCHANGED << validator_vars, fixer_vars, source_files, file_pc, chunks,
                    completed, outputs >>

\* `async with semaphore:` is entered: a permit is taken.
AcquirePermit(f, i) ==
    /\ requests[f][i].state = "waiting"
    /\ semaphore > 0
    /\ semaphore' = semaphore - 1
    /\ requests' = [requests EXCEPT ![f][i].state = "in_flight"]
    /\ UNCHANGED << validator_vars, fixer_vars, source_files, file_pc, chunks,
                    completed, outputs >>

\* translate_chunk returns `value` and leaves `async with`: the permit goes
\* back, the call is done.
RequestReturns(f, i, how, value) ==
    /\ requests[f][i].state = "in_flight"
    /\ requests' = [requests EXCEPT ![f][i] =
          [state |-> "returned", outcome |-> how,
           chunk |-> requests[f][i].chunk, result |-> value,
           returned_at |-> Len(completed[f]) + 1]]
    /\ completed' = [completed EXCEPT ![f] = Append(completed[f], i)]
    /\ semaphore' = semaphore + 1
    /\ UNCHANGED << validator_vars, fixer_vars, source_files, file_pc, chunks,
                    outputs >>

\* `if response.text: return response.text`
ReturnTranslation(f, i) ==
    /\ ResponseText(requests[f][i].chunk) # << >>
    /\ RequestReturns(f, i, "text", ResponseText(requests[f][i].chunk))

\* The response has no text: `return chunk_content`
ReturnOriginalOnEmpty(f, i) ==
    RequestReturns(f, i, "empty", requests[f][i].chunk)

\* The request raises: `except Exception: return chunk_content`
ReturnOriginalOnError(f, i) ==
    RequestReturns(f, i, "error", requests[f][i].chunk)

\* A gather that would hand the values over in the order in which the calls
\* returned.
Gathered_AsCompleted(file_requests) ==
    [k \in 1..Len(file_requests) |->
        file_requests[CHOOSE i \in 1..Len(file_requests) :
                         file_requests[i].returned_at = k].result]

\* results of asyncio.gather: the value of each call, in the order of the
\* calls.
Gathered(file_requests) ==
    [i \in 1..Len(file_requests) |-> file_requests[i].result]

\* "".join(translated_chunks); for a file that was not split, the value of
\* its one call.
FinalText(file_requests) == Flatten(Gathered(file_requests))

\* What process_file does with the final text: a text that differs from
\* the file's is validated and written and the file is a success, any other
\* is a failure.
OutputFor(final, original_text) ==
    IF final # original_text
    THEN [final |-> final, validated |-> TRUE, written |-> final,
          returned |-> "True"]
    ELSE [final |-> final, validated |-> FALSE, written |-> NotWritten,
          returned |-> "False"]

\* process_file after all its calls have returned.
FinishFile(f) ==
    /\ file_pc[f] = "gather"
    /\ \A i \in 1..Len(requests[f]) : requests[f][i].state = "returned"
    /\ outputs' = [outputs EXCEPT ![f] =
          OutputFor(FinalText(requests[f]), source_files[f].text)]
    /\ file_pc' = [file_pc EXCEPT ![f] = "done"]
    /\ UNCHANGED << validator_vars, fixer_vars, source_files, chunks, requests,
                    completed, semaphore >>

NextTranslator ==
    \/ \E f \in 1..Len(source_files) : ProcessFile(f)
    \/ \E f \in 1..Len(source_files) : \E i \in 1..Len(requests[f]) :
          AcquirePermit(f, i)
    \/ \E f \in 1..Len(source_files) : \E i \in 1..Len(requests[f]) :
          ReturnTranslation(f, i)
    \/ \E f \in 1..Len(source_files) : \E i \in 1..Len(requests[f]) :
          ReturnOriginalOnEmpty(f, i)
    \/ \E f \in 1..Len(source_files) : \E i \in 1..Len(requests[f]) :
          ReturnOriginalOnError(f, i)
    \/ \E f \in 1..Len(source_files) : FinishFile(f)

\* No validator is built and no fixer is run while the translator works.
ValidatorIdle ==
    /\ original_lines = << >> /\ translated_lines = << >>
    /\ glossary_lines = << >> /\ glossary = BuildGlossary(<< >>)
    /\ kiwi = << >> /\ issues = << >> /\ is_structurally_sound = FALSE
    /\ pc = "_check_line_count_and_structure"
    /\ invoked = {} /\ indexed_reads = {}
    /\ fixed_lines = << >> /\ fixes = << >> /\ output_file = << >>
    /\ fixer_pc = "run_auto_fixer" /\ passes = 0

\* Source files for the splitter: one file of at most MaxSourceLines lines,
\* each a passage header, a line of prose or an empty line, at the size of
\* the threshold or one byte above it.  The text stands for a file of that
\* size: what is left out is prose between the lines shown.
MaxSourceLines == 3

SourceLines ==
    { << ":", ":", " ", "A" >>, << ":", ":", " ", "B" >>, << "x" >>, << >> }

SourceTexts == {JoinLines(d) : d \in Documents(SourceLines, MaxSourceLines)}

FileSizes == {CHUNK_THRESHOLD_BYTES, CHUNK_THRESHOLD_BYTES + 1}

InitTranslator ==
    /\ ValidatorIdle
    /\ \E text \in SourceTexts : \E size \in FileSizes :
          TranslatorStarts(<< [text |-> text, size |-> size] >>)

SpecTranslator == InitTranslator /\ [][NextTranslator]_vars

\* Source folders for the permit pool: MaxPoolFiles files, the first above
\* the threshold with two passages (two requests), the others small (one
\* request each), so that more requests than permits contend.
MaxPoolFiles == 4

SmallFile == [text |-> << "x" >>, size |-> CHUNK_THRESHOLD_BYTES]

LargeFile ==
    [text |-> JoinLines(<< << ":", ":", " ", "A" >>, << "x" >>,
                           << ":", ":", " ", "B" >>, << "x" >> >>),
     size |-> CHUNK_THRESHOLD_BYTES + 1]

PoolFolder == [f \in 1..MaxPoolFiles |-> IF f = 1 THEN LargeFile ELSE SmallFile]

InitPool == ValidatorIdle /\ TranslatorStarts(PoolFolder)

SpecPool == InitPool /\ [][NextTranslator]_vars

(***************************************************************************)
(* Properties of the structural aligner                                    *)
(***************************************************************************)
\* The aligner has returned.
Aligned == pc # "_check_line_count_and_structure"

StructuralTypes == {"STRUCTURE_ERROR", "STRUCTURAL_MISMATCH"}

\* The issues of the given kinds, in the order they were appended.
IssuesOfTypes(types) == SelectSeq(issues, LAMBDA x : x.type \in types)

\* C1: a document aligned with itself is reported structurally sound, and
\* the aligner appends no structural issue.
C1_SelfAlignmentIsSound ==
    (Aligned /\ original_lines = translated_lines)
        => (is_structurally_sound /\ IssuesOfTypes(StructuralTypes) = <<>>)

\* A document of two lines has been aligned with itself.
C1_Witness ==
    /\ Aligned
    /\ original_lines = translated_lines
    /\ Len(original_lines) >= 2

(***************************************************************************)
(* What was done to the source, told from the two documents alone, when    *)
(* that can be told: the source has no line twice, and the lines that the  *)
(* candidate shares with it stand in the candidate once and in the         *)
(* source's order.  Every other source line was deleted, every other       *)
(* candidate line inserted.                                                *)
(***************************************************************************)
NoRepeats(lines) == \A i, j \in 1..Len(lines) : lines[i] = lines[j] => i = j

PositionIn(lines, line) == CHOOSE i \in 1..Len(lines) : lines[i] = line

IsPlainEdit(orig, trans) ==
    /\ NoRepeats(orig)
    /\ \A j1, j2 \in 1..Len(trans) :
          (j1 < j2 /\ trans[j1] \in Range(orig) /\ trans[j2] \in Range(orig))
              => PositionIn(orig, trans[j1]) < PositionIn(orig, trans[j2])

\* The gaps, each named by the source position of the kept line before it
\* (0 for the gap at the start).
Gaps(orig, trans) == {0} \cup {i \in 1..Len(orig) : orig[i] \in Range(trans)}

\* The source position of the kept line after gap g (one past the end for
\* the last gap), and the candidate positions around the gap.
NextKept(orig, trans, g) ==
    Min({i \in Gaps(orig, trans) : i > g} \cup {Len(orig) + 1})

CandidateAt(orig, trans, i) ==
    IF i = 0 THEN 0
    ELSE IF i > Len(orig) THEN Len(trans) + 1
    ELSE PositionIn(trans, orig[i])

DeletedIn(orig, trans, g) ==
    Slice(orig, g + 1, NextKept(orig, trans, g) - 1)

InsertedIn(orig, trans, g) ==
    Slice(trans, CandidateAt(orig, trans, g) + 1,
          CandidateAt(orig, trans, NextKept(orig, trans, g)) - 1)

\* The runs that do not touch a run of the other kind, in document order,
\* each with the 1-based source position where it starts.
RECURSIVE LoneRunsFrom(_, _, _)
LoneRunsFrom(orig, trans, g) ==
    LET deleted  == DeletedIn(orig, trans, g)
        inserted == InsertedIn(orig, trans, g)
        here     == IF deleted # <<>> /\ inserted = <<>>
                    THEN << << "delete", g + 1, deleted >> >>
                    ELSE IF inserted # <<>> /\ deleted = <<>>
                    THEN << << "insert", g + 1, inserted >> >>
                    ELSE <<>>
    IN  IF NextKept(orig, trans, g) > Len(orig) THEN here
        ELSE here \o LoneRunsFrom(orig, trans, NextKept(orig, trans, g))

LoneRuns(orig, trans) == LoneRunsFrom(orig, trans, 0)

\* What a mismatch issue says: deletion or insertion, where, which lines.
\* Its diff text lists context lines after two blanks and the lines of the
\* run after "- " or "+ ".
IssueKind(issue) ==
    IF issue.description.kind = "deleted_near_original_line"
    THEN "delete" ELSE "insert"

ListedLines(issue) ==
    LET run == SelectSeq(issue.diff_text, LAMBDA entry : entry[1] # " ")
    IN  [k \in 1..Len(run) |-> Slice(run[k], 3, Len(run[k]))]

MismatchIssues == IssuesOfTypes({"STRUCTURAL_MISMATCH"})

ReportedRuns ==
    [k \in 1..Len(MismatchIssues) |->
        << IssueKind(MismatchIssues[k]), MismatchIssues[k].line_num,
           ListedLines(MismatchIssues[k]) >>]

\* The one issue about the line counts.
IsLineCountIssue(issue) ==
    /\ issue.type = "STRUCTURE_ERROR"
    /\ issue.severity = "CRITICAL"
    /\ issue.line_num = 0
    /\ issue.description.nums = << Len(original_lines), Len(translated_lines) >>

\* No run of deleted lines touches a run of inserted lines.
RunsAreApart(orig, trans) ==
    \A g \in Gaps(orig, trans) :
       DeletedIn(orig, trans, g) = <<>> \/ InsertedIn(orig, trans, g) = <<>>

\* C2 as the specification states it, for the edits whose runs of deleted
\* and of inserted lines are apart: one mismatch issue for every run, in
\* document order, listing the lines of the run.
C2_OneIssuePerRun ==
    (/\ Aligned
     /\ IsPlainEdit(original_lines, translated_lines)
     /\ RunsAreApart(original_lines, translated_lines))
        => [k \in 1..Len(ReportedRuns) |->
               << ReportedRuns[k][1], ReportedRuns[k][3] >>]
             = [k \in 1..Len(LoneRuns(original_lines, translated_lines)) |->
                  << LoneRuns(original_lines, translated_lines)[k][1],
                     LoneRuns(original_lines, translated_lines)[k][3] >>]

\* C2, amended: documents of equal line count get no structural issue; a
\* candidate of another line count that is a plain edit of a source without
\* repeated lines gets the line-count issue and then, in document order, one
\* mismatch issue for every run of deleted or of inserted lines that does
\* not touch a run of the other kind, listing exactly the lines of the run;
\* a deleted run that touches an inserted run is a replacement and gets
\* none.
C2_OneIssuePerLoneRun ==
    Aligned =>
        /\ Len(original_lines) = Len(translated_lines)
              => IssuesOfTypes(StructuralTypes) = <<>>
        /\ (/\ Len(original_lines) # Len(translated_lines)
            /\ IsPlainEdit(original_lines, translated_lines))
              => /\ IsLineCountIssue(Head(IssuesOfTypes(StructuralTypes)))
                 /\ Tail(IssuesOfTypes(StructuralTypes)) = MismatchIssues
                 /\ ReportedRuns = LoneRuns(original_lines, translated_lines)

\* A plain edit with an insertion and, apart from it, a deletion has been
\* aligned and both were reported.
C2_Witness ==
    /\ Aligned
    /\ IsPlainEdit(original_lines, translated_lines)
    /\ Len(original_lines) # Len(translated_lines)
    /\ {ReportedRuns[k][1] : k \in 1..Len(ReportedRuns)} = {"delete", "insert"}

\* The first source line that the candidate does not hold at the same place.
FirstDivergence(orig, trans) ==
    Min({i \in 1..Len(orig) : i > Len(trans) \/ orig[i] # trans[i]})

\* The document without its d-th line.
RemoveAt(lines, d) ==
    [k \in 1..(Len(lines) - 1) |-> IF k < d THEN lines[k] ELSE lines[k + 1]]

\* C3 as the specification states it, for a candidate that is the source
\* less one line: exactly one mismatch issue, at the first diverging source
\* line.
C3_OneFewerLine ==
    (/\ Aligned
     /\ \E d \in 1..Len(original_lines) :
           translated_lines = RemoveAt(original_lines, d))
        => /\ Len(MismatchIssues) = 1
           /\ MismatchIssues[1].line_num
                = FirstDivergence(original_lines, translated_lines)

\* C3, amended: when the candidate is a source without repeated lines less
\* exactly one of its lines, the aligner appends the line-count issue and
\* exactly one mismatch issue; its line_num is the 1-based position of the
\* removed line, which is the first diverging source line.
C3_OneLineRemoved ==
    \A d \in 1..Len(original_lines) :
       (/\ Aligned
        /\ NoRepeats(original_lines)
        /\ translated_lines = RemoveAt(original_lines, d))
          => /\ Len(IssuesOfTypes(StructuralTypes)) = 2
             /\ IsLineCountIssue(IssuesOfTypes(StructuralTypes)[1])
             /\ Len(MismatchIssues) = 1
             /\ MismatchIssues[1].severity = "CRITICAL"
             /\ MismatchIssues[1].line_num = d
             /\ d = FirstDivergence(original_lines, translated_lines)

\* The middle line of a three-line source was removed, and aligned.
C3_Witness ==
    /\ Aligned
    /\ NoRepeats(original_lines)
    /\ Len(original_lines) = 3
    /\ translated_lines = RemoveAt(original_lines, 2)
    /\ Len(MismatchIssues) = 1

(***************************************************************************)
(* Properties of the gate on the checks that pair line i with line i       *)
(***************************************************************************)
\* run_all_checks has returned.
Done == pc = "done"

\* The issues of the given kinds that cite line i, in the order they were
\* appended.
IssuesAt(types, i) ==
    SelectSeq(issues, LAMBDA x : x.type \in types /\ x.line_num = i)

PositionalChecks == {"_check_macro_corruption", "_check_glossary_compliance_nlp"}

MacroTypes == {"MACRO_CORRUPTION"}

GlossaryTypes == {"GLOSSARY_NOT_APPLIED", "GLOSSARY_MISTRANSLATED"}

\* C4: once the aligner has found that the line counts differ, the run is
\* not structurally sound, and for the rest of the run neither the macro
\* check nor the glossary check is called for any line, no iteration reads
\* original_lines[i], and no issue of either check is appended.
C4_UnsoundRunSkipsPositionalChecks ==
    (Aligned /\ Len(original_lines) # Len(translated_lines)) =>
        /\ ~is_structurally_sound
        /\ \A call \in invoked : call[1] \notin PositionalChecks
        /\ indexed_reads = {}
        /\ IssuesOfTypes(MacroTypes \cup GlossaryTypes) = <<>>

\* A run over documents of different lengths has returned; the candidate
\* has a line of prose and code, with a macro whose literal is Hangul, and
\* the checks that need no source line were called for that line.
C4_Witness ==
    /\ Done
    /\ Len(original_lines) # Len(translated_lines)
    /\ \E i \in 1..Len(translated_lines) :
          /\ ClassifyLine(translated_lines[i]) = "MIXED_CONTENT"
          /\ \E k \in 1..Len(FindAllMacro(translated_lines[i])) :
                CorruptLiterals(FindAllMacro(translated_lines[i])[k]) # <<>>
          /\ << "_check_untranslated_content", i >> \in invoked
          /\ << "_check_text_corruption", i >> \in invoked

(***************************************************************************)
(* Properties of the identifier checks                                     *)
(***************************************************************************)
\* A passage header: the line opens with "::" and a blank.
IsHeaderLine(line) ==
    Len(line) >= 3 /\ line[1] = ":" /\ line[2] = ":" /\ IsSpace(line[3])

\* The passage headers of a document in order, outer blanks removed.
HeaderList(lines) ==
    LET headers == SelectSeq(lines, IsHeaderLine)
    IN  [k \in 1..Len(headers) |-> Strip(headers[k])]

\* _check_core_identifiers has returned.
HeadersChecked ==
    pc \notin {"_check_line_count_and_structure", "_check_core_identifiers"}

\* C5: when the ordered header lists of source and candidate differ in any
\* way, the identifier check has appended exactly one Critical passage
\* header mismatch issue (line 0), and none when the lists are the same,
\* whether the documents are structurally sound or not.
C5_OneIssueForHeaderLists ==
    HeadersChecked =>
        LET found == IssuesOfTypes({"PASSAGE_HEADER_MISMATCH"})
        IN  IF HeaderList(original_lines) = HeaderList(translated_lines)
            THEN found = <<>>
            ELSE /\ Len(found) = 1
                 /\ found[1].severity = "CRITICAL"
                 /\ found[1].line_num = 0

\* The candidate has the two headers of the source in the other order, and
\* the one issue is there.
C5_Witness ==
    /\ HeadersChecked
    /\ Len(HeaderList(original_lines)) = 2
    /\ HeaderList(original_lines)[1] # HeaderList(original_lines)[2]
    /\ HeaderList(translated_lines) =
          << HeaderList(original_lines)[2], HeaderList(original_lines)[1] >>
    /\ Len(IssuesOfTypes({"PASSAGE_HEADER_MISMATCH"})) = 1

\* The variables a line refers to.
LineVariables(line) == Range(FindAllVariable(line))

\* C6: at the end of a structurally sound run, every line whose set of
\* variable references is not that of the source line at the same position
\* has a Critical issue that cites its line number.
C6_PerLineVariableIssue ==
    (Done /\ is_structurally_sound) =>
        \A i \in 1..Len(translated_lines) :
            LineVariables(original_lines[i]) # LineVariables(translated_lines[i])
                => \E k \in 1..Len(issues) :
                      /\ issues[k].severity = "CRITICAL"
                      /\ issues[k].line_num = i

(***************************************************************************)
(* Properties of the macro check                                           *)
(***************************************************************************)
HasHangul(text) == \E k \in 1..Len(text) : IsHangul(text[k])

\* A literal of a macro that is target-language text and not a particle.
IsOffendingLiteral(literal) ==
    HasHangul(literal) /\ literal \notin ALLOWED_POSTPOSITIONS

OffendingLiterals(macro) ==
    SelectSeq(FindAllStringLiteral(macro), IsOffendingLiteral)

\* A macro with a head identifier that is not on the allow-list and with
\* an offending literal.
IsOffendingMacro(macro) ==
    /\ MacroName(macro) # <<>>
    /\ MacroName(macro) \notin TEXT_MACROS_WHITELIST
    /\ OffendingLiterals(macro) # <<>>

IsOffendingAt(macros, k) == IsOffendingMacro(macros[k])

EqualMacroCounts(i) ==
    Len(FindAllMacro(original_lines[i])) = Len(FindAllMacro(translated_lines[i]))

\* The macro issues of line i are one Critical issue for each offending
\* macro of the candidate line, in the order of the macros, each citing the
\* head, the first offending literal, the source macro at the same place
\* and the candidate macro.
MacroIssuesAsClaimed(i) ==
    LET om == FindAllMacro(original_lines[i])
        tm == FindAllMacro(translated_lines[i])
        hits == SelectSeq([k \in 1..Len(tm) |-> k],
                          LAMBDA k : IsOffendingMacro(tm[k]))
        found == IssuesAt(MacroTypes, i)
    IN  /\ Len(found) = Len(hits)
        /\ \A n \in 1..Len(hits) :
              /\ found[n].severity = "CRITICAL"
              /\ found[n].description.texts =
                    << MacroName(tm[hits[n]]),
                       Head(OffendingLiterals(tm[hits[n]])) >>
              /\ found[n].original = Backticked(om[hits[n]])
              /\ found[n].translated = Backticked(tm[hits[n]])

\* C7 as the specification states it: in a structurally sound run, every
\* line pair with as many macros on both sides has exactly one Critical
\* macro corruption issue for each offending macro of the candidate line.
C7_OneIssuePerOffendingMacro ==
    (Done /\ is_structurally_sound) =>
        \A i \in 1..Len(translated_lines) :
            EqualMacroCounts(i) => MacroIssuesAsClaimed(i)

\* C7, amended: in a structurally sound run, a line pair with as many
\* macros on both sides whose candidate line is classified as code (pure
\* code, mixed content or unknown code) has exactly one Critical macro
\* corruption issue for each offending macro of the candidate line, citing
\* the first offending literal and both macros; a line of any other class,
\* or with a different number of macros, has no macro corruption issue.
C7_OneIssuePerOffendingMacroOfCodeLine ==
    (Done /\ is_structurally_sound) =>
        \A i \in 1..Len(translated_lines) :
            IF /\ ClassifyLine(translated_lines[i]) \in CodeLineTypes
               /\ EqualMacroCounts(i)
            THEN MacroIssuesAsClaimed(i)
            ELSE IssuesAt(MacroTypes, i) = <<>>

\* <<npc "Great Hawk">> came back as <<npc "거대 매">>, and the one issue of
\* the line cites the literal.
C7_Witness ==
    /\ Done
    /\ is_structurally_sound
    /\ \E i \in 1..Len(translated_lines) :
          /\ original_lines[i] =
                << "<", "<", "n", "p", "c", " ", "\"", "G", "r", "e", "a",
                   "t", " ", "H", "a", "w", "k", "\"", ">", ">" >>
          /\ translated_lines[i] =
                << "<", "<", "n", "p", "c", " ", "\"", "KO_geo", "KO_dae",
                   " ", "KO_mae", "\"", ">", ">" >>
          /\ Len(IssuesAt(MacroTypes, i)) = 1
          /\ IssuesAt(MacroTypes, i)[1].description.texts[2] =
                << "KO_geo", "KO_dae", " ", "KO_mae" >>

MacrosUnchanged(i) ==
    FindAllMacro(original_lines[i]) = FindAllMacro(translated_lines[i])

GlossaryIssuesFor(i, key) ==
    SelectSeq(issues, LAMBDA x : /\ x.type \in GlossaryTypes
                                 /\ x.line_num = i
                                 /\ x.description.texts[1] = key)

\* The mandated value of the key is neither a form the tokenizer reports
\* for candidate line i nor a substring of its residue.
ValueMissingAt(i, value) ==
    /\ value \notin kiwi[i]
    /\ ~Contains(GetPureText(translated_lines[i]), value)

\* The verdict on one key for line i: Info when the value is missing and
\* the term is still there in any letter case, Warning when the value is
\* missing and the term is gone, nothing when the value is there.
GlossaryVerdictAsClaimed(i, key) ==
    LET found == GlossaryIssuesFor(i, key)
    IN  IF ValueMissingAt(i, glossary[key])
        THEN /\ Len(found) = 1
             /\ IF Contains(Lower(GetPureText(translated_lines[i])), Lower(key))
                THEN /\ found[1].severity = "INFO"
                     /\ found[1].type = "GLOSSARY_NOT_APPLIED"
                ELSE /\ found[1].severity = "WARNING"
                     /\ found[1].type = "GLOSSARY_MISTRANSLATED"
        ELSE found = <<>>

\* C9 as the specification states it: in a structurally sound run, every
\* glossary key found in the residue of a source line gets that verdict
\* for the candidate line at the same position.
C9_VerdictPerFoundTerm ==
    (Done /\ is_structurally_sound) =>
        \A i \in 1..Len(translated_lines) :
            \A key \in DOMAIN glossary :
                Contains(GetPureText(original_lines[i]), key)
                    => GlossaryVerdictAsClaimed(i, key)

\* C9, amended: in a structurally sound run, for a candidate line that is
\* classified as pure text or mixed content, every glossary key found in
\* the residue of the source line gets that verdict, and a key that is not
\* found gets no issue; a candidate line of any other class gets no
\* glossary issue at all.
C9_VerdictPerFoundTermOfTextLine ==
    (Done /\ is_structurally_sound) =>
        \A i \in 1..Len(translated_lines) :
            IF ClassifyLine(translated_lines[i]) \in TextLineTypes
            THEN \A key \in DOMAIN glossary :
                    IF Contains(GetPureText(original_lines[i]), key)
                    THEN GlossaryVerdictAsClaimed(i, key)
                    ELSE GlossaryIssuesFor(i, key) = <<>>
            ELSE IssuesAt(GlossaryTypes, i) = <<>>

\* A term of the source line came back as something else than the mandated
\* value and is gone from the candidate line: one Warning.
C9_Witness ==
    /\ Done
    /\ is_structurally_sound
    /\ \E i \in 1..Len(translated_lines) :
          \E key \in DOMAIN glossary :
              /\ Contains(GetPureText(original_lines[i]), key)
              /\ ValueMissingAt(i, glossary[key])
              /\ HasHangul(translated_lines[i])
              /\ Len(GlossaryIssuesFor(i, key)) = 1
              /\ GlossaryIssuesFor(i, key)[1].severity = "WARNING"

\* A line of the glossary file that gives an entry.
IsEntryLine(line) ==
    /\ ~GlossaryLineSkipped(line)
    /\ GlossaryLineParts(line)[1] # <<>>
    /\ GlossaryLineParts(line)[2] # <<>>

\* The entries of the glossary file in file order, each << term, value >>.
GlossaryEntries ==
    LET kept == SelectSeq(glossary_lines, IsEntryLine)
    IN  [n \in 1..Len(kept) |-> GlossaryLineParts(kept[n])]

SameTermAnyCase(a, b) == Lower(a) = Lower(b)

\* The file gives the term of entry n, in whatever letter case, one value.
HasOneValue(n) ==
    \A m \in 1..Len(GlossaryEntries) :
        SameTermAnyCase(GlossaryEntries[m][1], GlossaryEntries[n][1])
            => GlossaryEntries[m][2] = GlossaryEntries[n][2]

\* C10 as the specification states it: every key of the lookup that is an
\* entry's term in some letter case maps to that entry's value (when the
\* file gives the term one value), and in a structurally sound run a source
\* line of prose that holds an entry's term in any letter case has the term
\* detected: when the entry's value is missing from the candidate line, an
\* issue cites the term.
C10_LookupIgnoresCase ==
    \A n \in 1..Len(GlossaryEntries) :
        HasOneValue(n) =>
            /\ \A key \in DOMAIN glossary :
                  SameTermAnyCase(key, GlossaryEntries[n][1])
                      => glossary[key] = GlossaryEntries[n][2]
            /\ (Done /\ is_structurally_sound) =>
                  \A i \in 1..Len(translated_lines) :
                      ( /\ ClassifyLine(translated_lines[i]) \in TextLineTypes
                        /\ Contains(Lower(GetPureText(original_lines[i])),
                                    Lower(GlossaryEntries[n][1]))
                        /\ ValueMissingAt(i, GlossaryEntries[n][2]) )
                          => \E k \in 1..Len(issues) :
                                /\ issues[k].type \in GlossaryTypes
                                /\ issues[k].line_num = i
                                /\ SameTermAnyCase(issues[k].description.texts[1],
                                                   GlossaryEntries[n][1])

\* The three spellings of a term under which the lookup knows it.
Spellings(term) == {term, Lower(term), Capitalize(term)}

\* The entry that registers the key: the first with it among its spellings.
RegisteringEntry(entries, key) ==
    entries[Min({n \in 1..Len(entries) : key \in Spellings(entries[n][1])})]

\* C10, amended: the keys of the lookup are the entries' terms as written,
\* lower-cased and capitalized (first letter upper case, the rest lower
\* case); each key maps to the value of the first entry of the file with
\* the key among these three spellings; in a structurally sound run, for a
\* candidate line classified as pure text or mixed content, a key found in
\* the residue of the source line is cited by an issue exactly when its
\* value is missing from the candidate line, and a key that is not found,
\* as a term in any other letter case is not, is cited by none.
C10_LookupKnowsThreeSpellings ==
    LET entries == GlossaryEntries
    IN  /\ DOMAIN glossary =
              UNION {Spellings(entries[n][1]) : n \in 1..Len(entries)}
        /\ \A key \in DOMAIN glossary :
              glossary[key] = RegisteringEntry(entries, key)[2]
        /\ (Done /\ is_structurally_sound) =>
              \A i \in 1..Len(translated_lines) :
                  ClassifyLine(translated_lines[i]) \in TextLineTypes =>
                      \A key \in DOMAIN glossary :
                          (GlossaryIssuesFor(i, key) # <<>>)
                              <=> ( /\ Contains(GetPureText(original_lines[i]), key)
                                    /\ ValueMissingAt(i, glossary[key]) )

\* The source line holds a term in a spelling the glossary file does not
\* write, and an issue cites that spelling.
C10_Witness ==
    /\ Done
    /\ is_structurally_sound
    /\ \E i \in 1..Len(translated_lines) :
          \E key \in DOMAIN glossary :
              /\ \A n \in 1..Len(GlossaryEntries) : GlossaryEntries[n][1] # key
              /\ Contains(GetPureText(original_lines[i]), key)
              /\ GlossaryIssuesFor(i, key) # <<>>

(***************************************************************************)
(* Properties of the auto-fixer                                            *)
(***************************************************************************)
\* A call of run_auto_fixer has returned and its file is written.
FixerReturned == fixer_pc = "written"

\* C11: the auto-fixer is idempotent.  When it is run on the file that a
\* run of it wrote, the second run changes no line and makes no fix record.
C11_SecondPassChangesNothing ==
    (FixerReturned /\ passes >= 2) =>
        /\ fixes = << >>
        /\ fixed_lines = translated_lines

\* The lines of the document the fixer wrote, as a validator reads them.
OutputLines(text) == SplitLines(text)

\* The positions at which a line of `out` differs from the line of `inp`.
ChangedPositions(inp, out) == {i \in 1..Len(inp) : out[i] # inp[i]}

\* recs holds one record per changed position, in line order, each with the
\* line before and the line after.
RecordsAreTheChanges(recs, inp, out) ==
    /\ Len(recs) = Cardinality(ChangedPositions(inp, out))
    /\ \A k \in 1..Len(recs) :
          /\ recs[k].line_num \in ChangedPositions(inp, out)
          /\ recs[k].original = inp[recs[k].line_num]
          /\ recs[k].translated = out[recs[k].line_num]
          /\ \A j \in 1..(k - 1) : recs[j].line_num < recs[k].line_num

\* C12: a run of the auto-fixer writes a document of as many lines as the
\* candidate has, its fix records are exactly the positions at which an
\* output line differs from the input line, each with the line before and
\* after, and the source lines stay as they were.
C12_FixerKeepsLinesAndRecordsChanges ==
    [][RunAutoFixer =>
         /\ Len(OutputLines(output_file')) = Len(translated_lines)
         /\ RecordsAreTheChanges(fixes', translated_lines,
                                 OutputLines(output_file'))
         /\ original_lines' = original_lines
         /\ translated_lines' = translated_lines]_vars

\* What holds of the list fixed_lines, before it is written.
FixedLinesKeepLinesAndRecordChanges ==
    [][RunAutoFixer =>
         /\ Len(fixed_lines') = Len(translated_lines)
         /\ RecordsAreTheChanges(fixes', translated_lines, fixed_lines')
         /\ original_lines' = original_lines]_vars

(***************************************************************************)
(* Properties of the issue list                                            *)
(***************************************************************************)
\* The issue types that are verdicts on the whole document.
WholeDocumentTypes ==
    {"STRUCTURE_ERROR", "PASSAGE_HEADER_MISMATCH", "LINK_DESTINATION_MISMATCH",
     "GLOBAL_VARIABLE_MISMATCH"}

IsWholeDocumentIssue(issue) == issue.type \in WholeDocumentTypes

LinkVerdict(display_text) ==
    IF Strip(GetPureText(display_text)) = << >>
    THEN << << "WARNING", "EMPTY_INTERACTION" >> >>
    ELSE IF /\ MatchEnglishOnly(GetPureText(display_text))
            /\ Len(FindAllWords(GetPureText(display_text))) > 0
    THEN << << IF Len(FindAllWords(GetPureText(display_text)))
                     >= UNTRANSLATED_LINK_WORD_THRESHOLD
               THEN "WARNING" ELSE "INFO",
               "UNTRANSLATED_LINK" >> >>
    ELSE << >>

\* The verdicts on the links of a line, in the order of the links.
LinkVerdicts(line) ==
    Flatten([k \in 1..Len(AllLinks(line)) |-> LinkVerdict(AllLinks(line)[k][1])])

LinkTypes == {"EMPTY_INTERACTION", "UNTRANSLATED_LINK"}

\* The severity and type of each link issue on line i.
LinkIssuesAt(i) ==
    [k \in 1..Len(IssuesAt(LinkTypes, i)) |->
        << IssuesAt(LinkTypes, i)[k].severity, IssuesAt(LinkTypes, i)[k].type >>]

\* C14: every link of every candidate line gets the link check, however the
\* line is classified: a Warning for a display text that is empty without
\* its code, and for a display text of ASCII letters and punctuation a
\* Warning from four words on and an Info below.
C14_EveryLinkIsChecked ==
    Done =>
        \A i \in 1..Len(translated_lines) :
            LinkIssuesAt(i) = LinkVerdicts(translated_lines[i])

(***************************************************************************)
(* Properties of the whole-document variable comparison                    *)
(***************************************************************************)
\* The variables a variable-mismatch issue reports as missing, and those it
\* reports as added.
ReportedMissing(issue) ==
    Slice(issue.description.texts, 1, issue.description.nums[1])

ReportedAdded(issue) ==
    Slice(issue.description.texts, issue.description.nums[1] + 1,
          Len(issue.description.texts))

\* The variable-mismatch issues of the run.
VariableIssues == IssuesOfTypes({"GLOBAL_VARIABLE_MISMATCH"})

\* C15: the whole-document variable comparison is symmetric.  The run on
\* the two documents raises its variable issue exactly when the comparison
\* with source and candidate swapped raises one, what one reports as
\* missing the other reports as added, and the reports are drawn from the
\* difference of the two variable sets, all of it up to five variables a
\* side.
C15_VariableComparisonIsSymmetric ==
    Done =>
        LET swapped == GlobalVariableIssues(translated_lines, original_lines)
            o == DocumentVariables(original_lines)
            t == DocumentVariables(translated_lines)
        IN  /\ Len(VariableIssues) <= 1 /\ Len(swapped) = Len(VariableIssues)
            /\ (VariableIssues # << >>) <=> (o # t)
            /\ VariableIssues # << >> =>
                  /\ ReportedMissing(VariableIssues[1]) = ReportedAdded(swapped[1])
                  /\ ReportedAdded(VariableIssues[1]) = ReportedMissing(swapped[1])
                  /\ Range(ReportedMissing(VariableIssues[1])) \subseteq o \ t
                  /\ Range(ReportedAdded(VariableIssues[1])) \subseteq t \ o
                  /\ Cardinality(o \ t) <= 5 =>
                        Range(ReportedMissing(VariableIssues[1])) = o \ t
                  /\ Cardinality(t \ o) <= 5 =>
                        Range(ReportedAdded(VariableIssues[1])) = t \ o

\* A run whose candidate lost a variable and gained another.
C15_Witness ==
    /\ Done
    /\ VariableIssues # << >>
    /\ ReportedMissing(VariableIssues[1]) # << >>
    /\ ReportedAdded(VariableIssues[1]) # << >>
    /\ ReportedMissing(VariableIssues[1]) # ReportedAdded(VariableIssues[1])

(***************************************************************************)
(* Properties of the line classification                                   *)
(***************************************************************************)
LineTags ==
    {"BLANK", "PASSAGE_HEADER", "MARKDOWN_HEADER", "COMMENT", "PURE_CODE",
     "PURE_TEXT", "MIXED_CONTENT", "UNKNOWN_CODE"}

\* The line is nothing but whitespace.
IsBlankLine(line) == \A k \in 1..Len(line) : IsSpace(line[k])

\* The line starts with `::` and a blank.
StartsWithSigil(line) ==
    Len(line) >= 3 /\ line[1] = ":" /\ line[2] = ":" /\ IsSpace(line[3])

\* The line starts with one or more `#` and a blank.
StartsWithHashes(line) ==
    \E n \in 1..(Len(line) - 1) :
        /\ \A k \in 1..n : line[k] = "#"
        /\ IsSpace(line[n + 1])

\* The text, after its leading whitespace, starts with the opener.
OpensWith(line, opener) == StartsWith(Strip(line), opener)

\* The text, after its leading whitespace, starts with the opener, and the
\* closer follows on the same line.
OpensAndCloses(line, opener, closer) ==
    /\ OpensWith(line, opener)
    /\ FindFrom(Strip(line), closer, Len(opener) + 1) # 0

BlockOpener == << "/", "*" >>
BlockCloser == << "*", "/" >>
MarkupOpener == << "<", "!", "-", "-" >>
MarkupCloser == << "-", "-", ">" >>

\* A line that starts with a comment opener.
StartsComment(line) ==
    OpensWith(line, BlockOpener) \/ OpensWith(line, MarkupOpener)

\* A line that starts with a comment that is closed on the line.
StartsClosedComment(line) ==
    \/ OpensAndCloses(line, BlockOpener, BlockCloser)
    \/ OpensAndCloses(line, MarkupOpener, MarkupCloser)

\* The tag by code and residue.
QuadrantTag(line) ==
    IF SearchCodeBlock(line)
    THEN IF Strip(GetPureText(line)) = << >> THEN "PURE_CODE" ELSE "MIXED_CONTENT"
    ELSE IF Strip(GetPureText(line)) # << >> THEN "PURE_TEXT" ELSE "UNKNOWN_CODE"

\* The tag by the precedence, for a given reading of what a comment line is.
TagByPrecedence(line, is_comment) ==
    IF IsBlankLine(line) THEN "BLANK"
    ELSE IF StartsWithSigil(line) THEN "PASSAGE_HEADER"
    ELSE IF StartsWithHashes(line) THEN "MARKDOWN_HEADER"
    ELSE IF is_comment THEN "COMMENT"
    ELSE QuadrantTag(line)

\* C19 as the spec has it: every line gets one tag, by the precedence
\* Blank, PassageHeader, MarkdownHeader, Comment, then the quadrant of code
\* and residue; a line that starts with a comment opener is a Comment.
C19_TagByPrecedenceWithOpener ==
    \A i \in 1..Len(translated_lines) :
        /\ ClassifyLine(translated_lines[i]) \in LineTags
        /\ ClassifyLine(translated_lines[i])
             = TagByPrecedence(translated_lines[i], StartsComment(translated_lines[i]))

\* C19, as the code has it: every line gets one tag, by the precedence
\* Blank, PassageHeader, MarkdownHeader, Comment, then the quadrant of code
\* and residue; a line is a Comment when, after its leading whitespace, it
\* starts with a block comment or a markup comment that is closed on the
\* same line.
C19_TagByPrecedenceWithClosedComment ==
    \A i \in 1..Len(translated_lines) :
        /\ ClassifyLine(translated_lines[i]) \in LineTags
        /\ ClassifyLine(translated_lines[i])
             = TagByPrecedence(translated_lines[i],
                               StartsClosedComment(translated_lines[i]))

\* The run has classified a passage header that holds code, and a line
\* that opens a comment without closing it, which got the text checks.
C19_Witness ==
    /\ Done
    /\ \E i \in 1..Len(translated_lines) :
          /\ ClassifyLine(translated_lines[i]) = "PASSAGE_HEADER"
          /\ SearchCodeBlock(translated_lines[i])
          /\ << "_check_macro_corruption", i >> \notin invoked
    /\ \E i \in 1..Len(translated_lines) :
          /\ StartsComment(translated_lines[i])
          /\ ClassifyLine(translated_lines[i]) = "PURE_TEXT"
          /\ << "_check_untranslated_content", i >> \in invoked

(***************************************************************************)
(* Properties of the translator's permit pool                              *)
(***************************************************************************)
RequestsIn(state) ==
    {<< f, i >> \in (1..Len(source_files)) \X (1..6) :
        i <= Len(requests[f]) /\ requests[f][i].state = state}

AllFilesDone == \A f \in 1..Len(source_files) : file_pc[f] = "done"

\* C16: at every moment at most MAX_CONCURRENT_REQUESTS requests are in
\* flight over all files and chunks; each request in flight holds exactly one
\* permit of the semaphore, from the moment it starts until it returns a
\* translation, returns its original on an empty response or returns its
\* original on an exception; and once every file is done all
\* MAX_CONCURRENT_REQUESTS permits are available again.
C16_PermitsBoundRequestsInFlight ==
    /\ Cardinality(RequestsIn("in_flight")) <= MAX_CONCURRENT_REQUESTS
    /\ semaphore + Cardinality(RequestsIn("in_flight")) = MAX_CONCURRENT_REQUESTS
    /\ semaphore \in 0..MAX_CONCURRENT_REQUESTS
    /\ AllFilesDone => semaphore = MAX_CONCURRENT_REQUESTS

\* All permits are taken while a further request waits, after a request that
\* raised has given its permit back.
C16_Witness ==
    /\ Cardinality(RequestsIn("in_flight")) = MAX_CONCURRENT_REQUESTS
    /\ semaphore = 0
    /\ RequestsIn("waiting") # {}
    /\ \E r \in RequestsIn("returned") : requests[r[1]][r[2]].outcome = "error"

\* Every file is done after requests came back in each of the three ways,
\* and the pool is full again.
C16_AllPermitsBack ==
    /\ AllFilesDone
    /\ semaphore = MAX_CONCURRENT_REQUESTS
    /\ \A how \in {"text", "empty", "error"} :
          \E r \in RequestsIn("returned") : requests[r[1]][r[2]].outcome = how

(***************************************************************************)
(* Properties of the fallback of a request and of what the caller makes of *)
(* it                                                                      *)
(***************************************************************************)
FellBack(request) == request.state = "returned" /\ request.outcome \in {"empty", "error"}

FileIsFailure(f) ==
    /\ ~outputs[f].validated
    /\ outputs[f].written = NotWritten
    /\ outputs[f].returned = "False"

\* A request that returned empty or raised has returned its original text.
FallbackReturnsOriginal ==
    \A f \in 1..Len(source_files) : \A i \in 1..Len(requests[f]) :
        FellBack(requests[f][i]) => requests[f][i].result = requests[f][i].chunk

\* A file that was not split and whose one request gave back the original
\* is a failure: not validated, not written, reported False.
UnsplitFileUnchangedIsFailure ==
    \A f \in 1..Len(source_files) :
        (/\ file_pc[f] = "done"
         /\ source_files[f].size <= CHUNK_THRESHOLD_BYTES
         /\ requests[f][1].result = requests[f][1].chunk) => FileIsFailure(f)

\* C17: every request, of a whole small file or of one chunk of a large
\* file, that returned empty or raised has returned its original text, and
\* the file it belongs to is then a failed attempt: it is not validated, not
\* written and not reported as a success; a file is validated and written
\* only when its result differs from its text.
C17_FallbackIsAFailedAttempt ==
    /\ FallbackReturnsOriginal
    /\ \A f \in 1..Len(source_files) :
          file_pc[f] = "done" =>
             /\ (\E i \in 1..Len(requests[f]) : FellBack(requests[f][i]))
                   => FileIsFailure(f)
             /\ (outputs[f].validated \/ outputs[f].written # NotWritten)
                   => outputs[f].final # source_files[f].text

(***************************************************************************)
(* Properties of the splitting of a large file and of its reassembly       *)
(***************************************************************************)
RECURSIVE HeaderLinesFrom(_, _)
HeaderLinesFrom(text, p) ==
    IF NextHeader(text, p) = 0 THEN << >>
    ELSE << Slice(text, NextHeader(text, p), EndOfLine(text, NextHeader(text, p))) >>
            \o HeaderLinesFrom(text, EndOfLine(text, NextHeader(text, p)) + 1)

\* The passage header lines of a text, in order.
HeaderLinesOf(text) == HeaderLinesFrom(text, 1)

IsSplitAndDone(f) ==
    file_pc[f] = "done" /\ source_files[f].size > CHUNK_THRESHOLD_BYTES

\* A unit is a passage (one header line, at its start, and no other) or, as
\* the first unit only, a preamble without any header line.
IsPassageUnit(unit) == HeaderStartsAt(unit, 1) /\ Len(HeaderLinesOf(unit)) = 1

IsPreamble(unit) == HeaderLinesOf(unit) = << >>

\* C18: a file above the threshold is cut at its passage header lines: every
\* unit but an optional first preamble starts with one header line and holds
\* no other, and the headers of the units are the headers of the file in the
\* file's order; the reassembled text is the results of the units' requests
\* joined in the order of the units, whatever the order in which the
\* requests returned, so the header lines of the reassembled text are those
\* of the file in the file's order.
C18_UnitsAreCutAtHeadersAndKeepTheirOrder ==
    \A f \in 1..Len(source_files) :
        IsSplitAndDone(f) =>
            /\ \A k \in 1..Len(chunks[f]) :
                  \/ IsPassageUnit(chunks[f][k])
                  \/ k = 1 /\ IsPreamble(chunks[f][k])
            /\ HeaderLinesOf(Flatten(chunks[f])) = HeaderLinesOf(source_files[f].text)
            /\ outputs[f].final =
                  Flatten([k \in 1..Len(chunks[f]) |-> requests[f][k].result])
            /\ \A k \in 1..Len(chunks[f]) :
                  requests[f][k].result \in
                      {chunks[f][k], ResponseText(chunks[f][k])}
            /\ HeaderLinesOf(outputs[f].final) = HeaderLinesOf(source_files[f].text)

\* A file of a preamble and two different passages is done, the request of
\* the last passage having returned first and that of the preamble last,
\* each with a translation.
C18_Witness ==
    /\ IsSplitAndDone(1)
    /\ Len(chunks[1]) = 3
    /\ completed[1] = << 3, 2, 1 >>
    /\ IsPreamble(chunks[1][1])
    /\ chunks[1][2] # chunks[1][3]
    /\ \A k \in 1..3 : requests[1][k].outcome = "text"
    /\ requests[1][1].result # chunks[1][1]

(***************************************************************************)
(* Properties of splitting and joining without a change                    *)
(***************************************************************************)
AllFellBack(f) ==
    \A i \in 1..Len(requests[f]) : requests[f][i].result = requests[f][i].chunk

\* The text before the first header line of a file.
PreambleOf(text) == ReSplit(text)[1]

\* The units of a file joined in order are the file, unless the file starts
\* with a preamble of nothing but whitespace and line ends; then they are the
\* file without that preamble.
SplitThenJoinDropsOnlyABlankPreamble ==
    \A f \in 1..Len(source_files) :
        IsSplitAndDone(f) =>
            Flatten(chunks[f]) =
               IF StripsToNothing(PreambleOf(source_files[f].text))
               THEN SubSeq(source_files[f].text,
                           Len(PreambleOf(source_files[f].text)) + 1,
                           Len(source_files[f].text))
               ELSE source_files[f].text

\* C20: the units of a file above the threshold, joined in order and
\* unchanged, are the file, character for character, also when the file
\* starts with blank or whitespace-only lines before its first header line;
\* so when every request of the file has given back its original text the
\* reassembled text is the file's text and the file is a failure with
\* nothing written.
C20_SplitThenJoinIsTheFile ==
    \A f \in 1..Len(source_files) :
        IsSplitAndDone(f) =>
            /\ Flatten(chunks[f]) = source_files[f].text
            /\ AllFellBack(f) =>
                  /\ outputs[f].final = source_files[f].text
                  /\ FileIsFailure(f)

====
